---- MODULE Spec2Model ----
(***************************************************************************)
(* MOBIHunter (src/main.py): the work queue of MobiToEpubApp, its batch    *)
(* conversion worker thread, the converter subprocesses it spawns and the  *)
(* event queue through which the worker reports to the controller (Tk main *)
(* thread).                                                                *)
(***************************************************************************)
EXTENDS Integers, Sequences, FiniteSets, TLC

\* ------------------------------------------------------------------ bounds
\* Number of batch runs (worker threads) a behaviour of Spec may start.
MaxRuns == 1

\* Number of batch runs a behaviour of SpecQueue may start.
MaxQueueRuns == 2

\* The Batch Runs of a behaviour of SpecResolve.
MaxResolveRuns == 2

\* The Batch Runs of a behaviour of SpecLive.
MaxLiveRuns == 1

\* ------------------------------------------------------------------- paths
\* A path is a sequence of components; a component is a file or directory
\* name split as os.path.splitext splits it (stem, extension without the dot)
\* plus the number n of a " (n)" rename suffix (0: none).
Nm(stem, ext) == [stem |-> stem, ext |-> ext, n |-> 0]

Root == Nm("/", "")

Dot == Nm(".", "")

DotDot == Nm("..", "")

\* str.lower() on the strings that occur in the modelled names.
LowerStr(s) ==
    CASE s = "A" -> "a"
      [] s = "B" -> "b"
      [] s = "D" -> "d"
      [] s = "W" -> "w"
      [] s = "MOBI" -> "mobi"
      [] s = "Mobi" -> "mobi"
      [] s = "EPUB" -> "epub"
      [] OTHER -> s

LowerName(c) == [c EXCEPT !.stem = LowerStr(@), !.ext = LowerStr(@)]

lower(p) == [i \in DOMAIN p |-> LowerName(p[i])]

isabs(p) == Len(p) > 0 /\ p[1] = Root

\* One component applied to the stack os.path.normpath builds.
NormStep(stack, c) ==
    IF c = Dot THEN stack
    ELSE IF c = DotDot
         THEN IF Len(stack) = 0 \/ stack[Len(stack)] = DotDot
              THEN Append(stack, c)
              ELSE IF stack[Len(stack)] = Root
                   THEN stack
                   ELSE SubSeq(stack, 1, Len(stack) - 1)
         ELSE Append(stack, c)

RECURSIVE NormFrom(_, _, _)
NormFrom(p, i, stack) ==
    IF i > Len(p) THEN stack ELSE NormFrom(p, i + 1, NormStep(stack, p[i]))

normpath(p) == NormFrom(p, 1, <<>>)

\* The working directory of the process.
cwd == <<Root, Nm("w", "")>>

abspath(p) == IF isabs(p) THEN normpath(p) ELSE normpath(cwd \o p)

\* ------------------------------------------------------------------- state
VARIABLES
    platform,          \* "posix" | "nt": decides os.path.normcase and the case rule of the file system
    disk,              \* the files that exist (absolute, normalised paths, real spelling)
    settings,          \* the Tk variables existing_policy, failure_policy, timeout_seconds_var,
                       \* delete_source_var and output_dir_var, as one record
    files_to_convert,  \* self.files_to_convert: the Work Queue
    file_keys,         \* self.file_keys: the dedup keys
    is_converting,     \* self.is_converting
    cancel_requested,  \* self.cancel_requested
    current_process,   \* self.current_process (guarded by process_lock)
    event_queue,       \* self.event_queue
    workers,           \* the worker threads started so far, one record per thread
    procs              \* the converter subprocesses that are running

vars == <<platform, disk, settings, files_to_convert,
          file_keys, is_converting, cancel_requested, current_process,
          event_queue, workers, procs>>

POLICY_SKIP == "Skip existing"

POLICY_OVERWRITE == "Overwrite existing"

POLICY_RENAME == "Rename new file"

FAIL_POLICY_KEEP == "Keep failed queued"

FAIL_POLICY_REMOVE == "Remove failed from queue"

\* None, for a path and for a process handle.
None == <<>>

\* None, for an error message or a detail text.
NoError == [kind |-> "none"]

\* ------------------------------------------------------------- file system
normcase(p) == IF platform = "nt" THEN lower(p) ELSE p

canonical_path(p) == normcase(normpath(abspath(p)))

\* The name under which the file system looks up a normalised path:
\* case-insensitive on Windows, case-sensitive on POSIX.
FsKey(p) == IF platform = "nt" THEN lower(p) ELSE p

\* The directories of the modelled tree; none is created or removed.
Dirs == {<<Root>>, cwd, cwd \o <<Nm("d", "")>>}

isfile(p) == \E f \in disk : FsKey(f) = FsKey(p)

isdir(p) == \E d \in Dirs : FsKey(d) = FsKey(p)

exists(p) == isfile(p) \/ isdir(p)

basename(p) == p[Len(p)]

dirname(p) == SubSeq(p, 1, Len(p) - 1)

\* An extension test that takes the letter case into account.
EndsWithMobi_CaseSensitive(p) == Len(p) > 0 /\ basename(p).ext = "mobi"

\* path.lower().endswith(".mobi")
EndsWithMobi(p) == Len(p) > 0 /\ LowerStr(basename(p).ext) = "mobi"

\* p lies beneath directory d (at any depth), by the file system's lookup rule.
Beneath(p, d) ==
    /\ Len(p) > Len(d)
    /\ SubSeq(FsKey(p), 1, Len(d)) = FsKey(d)

\* The elements of a finite set as a sequence, in some fixed order.
RECURSIVE SeqOf(_)
SeqOf(S) ==
    IF S = {} THEN <<>>
    ELSE LET x == CHOOSE y \in S : TRUE IN <<x>> \o SeqOf(S \ {x})

\* The orders in which os.walk(top) can yield the files beneath top: the files
\* of a directory come before those of its subdirectories, and os.listdir
\* fixes no order among the files of one directory. The files whose name does
\* not end in .mobi are listed last, in a fixed order: the loop of queue_path
\* passes over them, so their place changes nothing.
WalkOrders(top) ==
    LET found == {f \in disk : Beneath(f, top)}
        mobi == {f \in found : EndsWithMobi(f)}
        n == Cardinality(mobi)
        rest == SeqOf(found \ mobi)
    IN {s \o rest : s \in
          {s \in [1..n -> mobi] :
             /\ \A i, j \in 1..n : i # j => s[i] # s[j]
             /\ \A i, j \in 1..n :
                   (i < j) => ~Beneath(dirname(s[i]), dirname(s[j]))}}

\* os.path.join(root, file_name) for a file found by the walk of `top`: the
\* directory part keeps the spelling the caller gave.
WalkPath(top, f) == top \o SubSeq(f, Len(top) + 1, Len(f))

\* ------------------------------------------------------------- work queue
\* The canonical paths of a list of paths.
Keys(q) == {canonical_path(q[i]) : i \in DOMAIN q}

\* queue_file testing the path as given against the keys.
queue_file_RawPathTest(q, keys, path) ==
    IF path \in keys
    THEN [q |-> q, keys |-> keys, added |-> FALSE]
    ELSE [q |-> Append(q, path),
          keys |-> keys \cup {canonical_path(path)},
          added |-> TRUE]

\* queue_file that does not record the key of the path it appends.
queue_file_KeyNotRecorded(q, keys, path) ==
    IF canonical_path(path) \in keys
    THEN [q |-> q, keys |-> keys, added |-> FALSE]
    ELSE [q |-> Append(q, path), keys |-> keys, added |-> TRUE]

\* queue_file: the queue, the keys and the value returned.
queue_file(q, keys, path) ==
    IF canonical_path(path) \in keys
    THEN [q |-> q, keys |-> keys, added |-> FALSE]
    ELSE [q |-> Append(q, path),
          keys |-> keys \cup {canonical_path(path)},
          added |-> TRUE]

\* The loop of queue_path over the files a walk of `top` found, from the i-th
\* on: st is the queue, the keys and the count added so far.
RECURSIVE QueueWalk(_, _, _, _)
QueueWalk(top, found, i, st) ==
    IF i > Len(found) THEN st
    ELSE IF EndsWithMobi(found[i])
         THEN LET r == queue_file(st.q, st.keys, WalkPath(top, found[i]))
              IN QueueWalk(top, found, i + 1,
                           [q |-> r.q, keys |-> r.keys,
                            added |-> st.added + (IF r.added THEN 1 ELSE 0)])
         ELSE QueueWalk(top, found, i + 1, st)

\* queue_path for a file: the queue, the keys and the count returned.
QueuePathFile(q, keys, path) ==
    IF EndsWithMobi(path)
    THEN LET r == queue_file(q, keys, path)
         IN [q |-> r.q, keys |-> r.keys, added |-> IF r.added THEN 1 ELSE 0]
    ELSE [q |-> q, keys |-> keys, added |-> 0]

\* The paths a user drops or picks: relative and absolute spellings, other
\* letter case, a file with another extension, directories, a missing file.
PathInputs ==
    { <<Nm("a", "mobi")>>,
      <<Dot, Nm("d", ""), DotDot, Nm("a", "mobi")>>,
      <<Root, Nm("w", ""), Nm("a", "mobi")>>,
      <<Nm("A", "Mobi")>>,
      <<Nm("d", ""), Nm("b", "MOBI")>>,
      <<Nm("n", "txt")>>,
      <<Nm("d", "")>>,
      <<Dot>>,
      <<Nm("zz", "mobi")>> }

\* on_drop / add_mobi_from_dialog -> queue_path(path)
QueuePath(input) ==
    LET path == abspath(input)
        st0 == [q |-> files_to_convert, keys |-> file_keys, added |-> 0]
    IN /\ \E r \in (IF isfile(path)
                    THEN {QueuePathFile(files_to_convert, file_keys, path)}
                    ELSE IF isdir(path)
                         THEN {QueueWalk(path, found, 1, st0) :
                                  found \in WalkOrders(path)}
                         ELSE {st0}) :
            /\ files_to_convert' = r.q
            /\ file_keys' = r.keys
       /\ UNCHANGED <<platform, disk, settings,
                      is_converting, cancel_requested, current_process,
                      event_queue, workers, procs>>

\* A clear that does not look at whether a run is active.
ClearList_WhileBusy(confirmed) ==
    /\ IF files_to_convert = <<>> \/ ~confirmed
       THEN UNCHANGED <<files_to_convert, file_keys>>
       ELSE /\ files_to_convert' = <<>>
            /\ file_keys' = {}
    /\ UNCHANGED <<platform, disk, settings,
                   is_converting, cancel_requested, current_process,
                   event_queue, workers, procs>>

\* clear_list; `confirmed` is the answer to the askyesno dialog.
ClearList(confirmed) ==
    /\ IF is_converting \/ files_to_convert = <<>> \/ ~confirmed
       THEN UNCHANGED <<files_to_convert, file_keys>>
       ELSE /\ files_to_convert' = <<>>
            /\ file_keys' = {}
    /\ UNCHANGED <<platform, disk, settings,
                   is_converting, cancel_requested, current_process,
                   event_queue, workers, procs>>

\* --------------------------------------------------- output path resolver
\* base + ".epub" and f"{base} ({index}).epub": `base` is a path whose last
\* component carries the stem.
Epub(base, index) ==
    [base EXCEPT ![Len(base)] = [stem |-> @.stem, ext |-> "epub", n |-> index]]

\* os.path.splitext(p)[0] as a path whose last component keeps only the stem.
splitext0(p) == [p EXCEPT ![Len(p)] = Nm(@.stem, "")]

SetMax(S) == IF S = {} THEN 0 ELSE CHOOSE m \in S : \A x \in S : x <= m

\* A scan that reports no numbered name whatever the directory holds.
find_next_rename_index_AlwaysOne(base, listdir_ok) == 1

\* find_next_rename_index; listdir_ok = FALSE is os.listdir raising OSError.
find_next_rename_index(base, listdir_ok) ==
    LET directory == dirname(base)
        stem == basename(base).stem
        names == {basename(f) : f \in {g \in disk : FsKey(dirname(g)) = FsKey(directory)}}
        matched == {nm \in names :
                      /\ LowerStr(nm.stem) = LowerStr(stem)
                      /\ LowerStr(nm.ext) = "epub"
                      /\ nm.n > 0}
    IN IF listdir_ok THEN SetMax({nm.n : nm \in matched}) + 1 ELSE 1

\* while os.path.exists(candidate): index += 1
RECURSIVE NextFree(_, _)
NextFree(base, index) ==
    IF exists(Epub(base, index)) THEN NextFree(base, index + 1) ELSE index

\* A resolver that overwrites an existing target under the Skip policy too.
resolve_output_path_SkipOverwrites(mobi_file, policy, output_dir, listdir_ok) ==
    LET base == IF output_dir # None
                THEN Append(output_dir, Nm(basename(mobi_file).stem, ""))
                ELSE splitext0(mobi_file)
        target == Epub(base, 0)
    IN IF ~exists(target) THEN <<target, FALSE>>
       ELSE IF policy = POLICY_SKIP THEN <<target, FALSE>>
       ELSE IF policy = POLICY_OVERWRITE THEN <<target, FALSE>>
       ELSE <<Epub(base, NextFree(base, find_next_rename_index(base, listdir_ok))), FALSE>>

\* resolve_output_path: <<output path, should_skip>>.
resolve_output_path(mobi_file, policy, output_dir, listdir_ok) ==
    LET base == IF output_dir # None
                THEN Append(output_dir, Nm(basename(mobi_file).stem, ""))
                ELSE splitext0(mobi_file)
        target == Epub(base, 0)
    IN IF ~exists(target) THEN <<target, FALSE>>
       ELSE IF policy = POLICY_SKIP THEN <<target, TRUE>>
       ELSE IF policy = POLICY_OVERWRITE THEN <<target, FALSE>>
       ELSE <<Epub(base, NextFree(base, find_next_rename_index(base, listdir_ok))), FALSE>>

\* ------------------------------------------------------------ tool output
\* A text is a sequence of tokens: white space, other text, or one of the
\* converter's split-error messages in the spelling the tool prints.
WhiteSpace == {" ", "\n"}

LowerToken(tok) ==
    CASE tok = "Could not find reasonable point at which to split" ->
             "could not find reasonable point at which to split"
      [] tok = "calibre.ebooks.oeb.transforms.split.SplitError" ->
             "calibre.ebooks.oeb.transforms.split.spliterror"
      [] tok = "Traceback" -> "traceback"
      [] OTHER -> tok

text_lower(text) == [i \in DOMAIN text |-> LowerToken(text[i])]

RECURSIVE lstrip(_)
lstrip(text) ==
    IF text # <<>> /\ text[1] \in WhiteSpace THEN lstrip(Tail(text)) ELSE text

RECURSIVE rstrip(_)
rstrip(text) ==
    IF text # <<>> /\ text[Len(text)] \in WhiteSpace
    THEN rstrip(SubSeq(text, 1, Len(text) - 1))
    ELSE text

strip(text) == rstrip(lstrip(text))

split_markers ==
    { "could not find reasonable point at which to split",
      "calibre.ebooks.oeb.transforms.split.spliterror",
      "oeb/transforms/split.py" }

is_split_error(text) ==
    \E i \in DOMAIN text : text_lower(text)[i] \in split_markers

\* (stderr or stdout or "").strip()
raw_tool_output(stdout, stderr) ==
    strip(IF stderr # <<>> THEN stderr ELSE stdout)

SPLIT_RETRY_FLAGS == <<"--flow-size", "0", "--dont-split-on-page-breaks">>

\* ---------------------------------------------------------- worker thread
\* A worker thread that has returned from convert_all.
Done == [pc |-> "done"]

\* The thread start_conversion creates: the arguments and the locals of
\* convert_all, and the locals of the convert_file call in progress.
Worker(snapshot, policy, timeout_seconds, converter_cmd, output_dir) ==
    [pc |-> "for",
     files |-> snapshot,
     policy |-> policy,
     timeout_seconds |-> timeout_seconds,
     converter_cmd |-> converter_cmd,
     output_dir |-> output_dir,
     successes |-> <<>>,
     skipped |-> <<>>,
     failures |-> <<>>,
     cancelled |-> FALSE,
     processed_count |-> 0,
     index |-> 1,
     output_path |-> None,
     attempt |-> 0,
     process |-> None,
     return_code |-> 0,
     stdout |-> <<>>,
     stderr |-> <<>>,
     fatal_error |-> NoError,
     cancel_during |-> FALSE]   \* a cancellation was accepted while the attempt's subprocess ran

Threads == DOMAIN workers

\* convert_all iterating the live queue instead of the copy.
Files_LiveQueue(w) == files_to_convert

\* The list convert_all iterates: the copy of the queue that start_conversion
\* made (line 621) and passed to the thread.
Files(w) == w.files

Alive(t) == workers[t].pc # "done"

Log(text) == [type |-> "log", text |-> text]

Progress(current, total) == [type |-> "progress", current |-> current, total |-> total]

Finished(w) ==
    [type |-> "finished",
     successes |-> w.successes,
     skipped |-> w.skipped,
     failures |-> w.failures,
     total |-> Len(Files(w)),
     processed_count |-> w.processed_count,
     cancelled |-> w.cancelled]

\* The convert_file locals once the call has returned.
ClearLocals(w) ==
    [w EXCEPT !.output_path = None, !.attempt = 0, !.process = None,
              !.return_code = 0, !.stdout = <<>>, !.stderr = <<>>,
              !.fatal_error = NoError, !.cancel_during = FALSE]

\* A loop that reports the length of the snapshot as the processed count.
AfterConvertFile_CountsSnapshot(w, status, detail) ==
    LET mobi_path == Files(w)[w.index]
        w1 == CASE status = "success" ->
                     [w EXCEPT !.successes = Append(@, <<mobi_path, w.output_path>>)]
                [] status = "skipped" ->
                     [w EXCEPT !.skipped = Append(@, mobi_path)]
                [] status = "cancelled" ->
                     [w EXCEPT !.failures = Append(@, <<mobi_path, detail>>),
                               !.cancelled = TRUE]
                [] OTHER ->
                     [w EXCEPT !.failures = Append(@, <<mobi_path, detail>>)]
    IN [ClearLocals(w1) EXCEPT
            !.processed_count = Len(Files(w)),
            !.index = w.index + 1,
            !.pc = IF status = "cancelled" THEN "finish" ELSE "for"]

\* A loop that a failed request ends.
AfterConvertFile_FailureEndsLoop(w, status, detail) ==
    LET mobi_path == Files(w)[w.index]
        w1 == CASE status = "success" ->
                     [w EXCEPT !.successes = Append(@, <<mobi_path, w.output_path>>)]
                [] status = "skipped" ->
                     [w EXCEPT !.skipped = Append(@, mobi_path)]
                [] status = "cancelled" ->
                     [w EXCEPT !.failures = Append(@, <<mobi_path, detail>>),
                               !.cancelled = TRUE]
                [] OTHER ->
                     [w EXCEPT !.failures = Append(@, <<mobi_path, detail>>)]
    IN [ClearLocals(w1) EXCEPT
            !.processed_count = w.index,
            !.index = w.index + 1,
            !.pc = IF status \in {"cancelled", "failed"} THEN "finish" ELSE "for"]

\* A loop that records each failure at the head of the failures list.
AfterConvertFile_FailuresNewestFirst(w, status, detail) ==
    LET mobi_path == Files(w)[w.index]
        w1 == CASE status = "success" ->
                     [w EXCEPT !.successes = Append(@, <<mobi_path, w.output_path>>)]
                [] status = "skipped" ->
                     [w EXCEPT !.skipped = Append(@, mobi_path)]
                [] status = "cancelled" ->
                     [w EXCEPT !.failures = <<<<mobi_path, detail>>>> \o @,
                               !.cancelled = TRUE]
                [] OTHER ->
                     [w EXCEPT !.failures = <<<<mobi_path, detail>>>> \o @]
    IN [ClearLocals(w1) EXCEPT
            !.processed_count = w.index,
            !.index = w.index + 1,
            !.pc = IF status = "cancelled" THEN "finish" ELSE "for"]

\* A loop that leaves a cancelled request out of the failures list.
AfterConvertFile_CancelledNotRecorded(w, status, detail) ==
    LET mobi_path == Files(w)[w.index]
        w1 == CASE status = "success" ->
                     [w EXCEPT !.successes = Append(@, <<mobi_path, w.output_path>>)]
                [] status = "skipped" ->
                     [w EXCEPT !.skipped = Append(@, mobi_path)]
                [] status = "cancelled" ->
                     [w EXCEPT !.cancelled = TRUE]
                [] OTHER ->
                     [w EXCEPT !.failures = Append(@, <<mobi_path, detail>>)]
    IN [ClearLocals(w1) EXCEPT
            !.processed_count = w.index,
            !.index = w.index + 1,
            !.pc = IF status = "cancelled" THEN "finish" ELSE "for"]

\* convert_all, lines 650-663: what the loop does with the value convert_file
\* returned for files[index].
AfterConvertFile(w, status, detail) ==
    LET mobi_path == Files(w)[w.index]
        w1 == CASE status = "success" ->
                     [w EXCEPT !.successes = Append(@, <<mobi_path, w.output_path>>)]
                [] status = "skipped" ->
                     [w EXCEPT !.skipped = Append(@, mobi_path)]
                [] status = "cancelled" ->
                     [w EXCEPT !.failures = Append(@, <<mobi_path, detail>>),
                               !.cancelled = TRUE]
                [] OTHER ->
                     [w EXCEPT !.failures = Append(@, <<mobi_path, detail>>)]
    IN [ClearLocals(w1) EXCEPT
            !.processed_count = w.index,
            !.index = w.index + 1,
            !.pc = IF status = "cancelled" THEN "finish" ELSE "for"]

\* A return to the loop that reports no progress.
Return_NoProgress(t, logs, status, detail) ==
    LET w == workers[t]
    IN /\ workers' = [workers EXCEPT ![t] = AfterConvertFile(w, status, detail)]
       /\ event_queue' = event_queue \o logs

\* convert_file returns (status, detail): the events it logged, then the
\* loop's bookkeeping and its progress event.
Return(t, logs, status, detail) ==
    LET w == workers[t]
    IN /\ workers' = [workers EXCEPT ![t] = AfterConvertFile(w, status, detail)]
       /\ event_queue' = event_queue \o logs \o <<Progress(w.index, Len(Files(w)))>>

\* convert_all, lines 642-645: the head of the loop.
ForLoop(t) ==
    /\ workers[t].pc = "for"
    /\ workers' = [workers EXCEPT ![t] =
          IF workers[t].index > Len(Files(workers[t]))
          THEN [@ EXCEPT !.pc = "finish"]
          ELSE IF cancel_requested
               THEN [@ EXCEPT !.cancelled = TRUE, !.pc = "finish"]
               ELSE [@ EXCEPT !.pc = "convert_file"]]
    /\ UNCHANGED <<platform, disk, settings,
                   files_to_convert, file_keys, is_converting, cancel_requested,
                   current_process, event_queue, procs>>

\* convert_file, lines 668-674.
ConvertFile(t, listdir_ok) ==
    LET w == workers[t]
        r == resolve_output_path(Files(w)[w.index], w.policy, w.output_dir, listdir_ok)
    IN /\ w.pc = "convert_file"
       /\ IF r[2]
          THEN /\ workers' = [workers EXCEPT ![t] =
                      AfterConvertFile([w EXCEPT !.output_path = r[1]],
                                       "skipped", [kind |-> "Output already exists."])]
               /\ event_queue' = event_queue \o
                      <<Log("Skipped existing EPUB"), Progress(w.index, Len(Files(w)))>>
          ELSE /\ workers' = [workers EXCEPT ![t] =
                      [w EXCEPT !.output_path = r[1], !.attempt = 1, !.pc = "popen"]]
               /\ event_queue' = Append(event_queue, Log("Converting"))
       /\ UNCHANGED <<platform, disk, settings,
                      files_to_convert, file_keys, is_converting, cancel_requested,
                      current_process, procs>>

\* The command line of the attempt in progress: command, or retry_command.
Command(w) ==
    <<w.converter_cmd, Files(w)[w.index], w.output_path>>
        \o (IF w.attempt = 2 THEN SPLIT_RETRY_FLAGS ELSE <<>>)

\* The handle of the subprocess thread t spawns for its current attempt. A
\* subprocess is recorded with its command line, whether the controller sent
\* it the termination signal (signalled) and whether a cancellation was
\* accepted while it was running (cancel_during).
Pid(t) == <<t, workers[t].index, workers[t].attempt>>

Running(pid) == \E p \in procs : p.pid = pid

Proc(pid) == CHOOSE p \in procs : p.pid = pid

\* run_conversion_command, line 735: subprocess.Popen. `how` is what the
\* operating system answers.
Popen(t, how) ==
    LET w == workers[t]
    IN /\ w.pc = "popen"
       /\ CASE how = "spawned" ->
                 /\ procs' = procs \cup
                        {[pid |-> Pid(t), command |-> Command(w), signalled |-> FALSE,
                          cancel_during |-> FALSE]}
                 /\ workers' = [workers EXCEPT ![t] =
                        [w EXCEPT !.process = Pid(t), !.pc = "publish"]]
                 /\ UNCHANGED event_queue
            [] how = "FileNotFoundError" ->
                 /\ workers' = [workers EXCEPT ![t] =
                        [w EXCEPT !.fatal_error = [kind |-> "ebook-convert was not found"],
                                  !.pc = "finally"]]
                 /\ event_queue' = Append(event_queue, Log("not found"))
                 /\ UNCHANGED procs
            [] OTHER ->
                 /\ workers' = [workers EXCEPT ![t] =
                        [w EXCEPT !.fatal_error = [kind |-> "Unexpected exception"],
                                  !.pc = "finally"]]
                 /\ event_queue' = Append(event_queue, Log("unexpected exception"))
                 /\ UNCHANGED procs
       /\ UNCHANGED <<platform, disk, settings,
                      files_to_convert, file_keys, is_converting, cancel_requested,
                      current_process>>

\* run_conversion_command, lines 736-737: the handle is published.
Publish(t) ==
    /\ workers[t].pc = "publish"
    /\ current_process' = workers[t].process
    /\ workers' = [workers EXCEPT ![t] = [@ EXCEPT !.pc = "communicate"]]
    /\ UNCHANGED <<platform, disk, settings,
                   files_to_convert, file_keys, is_converting, cancel_requested,
                   event_queue, procs>>

\* What a converter run can end with: exit code, standard output, standard
\* error.
ExitResults ==
    { [code |-> 0, stdout |-> <<"x">>, stderr |-> <<>>],
      [code |-> -15, stdout |-> <<>>, stderr |-> <<>>],
      [code |-> 1, stdout |-> <<"x">>, stderr |-> <<"Traceback", "x", "\n">>],
      [code |-> 1, stdout |-> <<>>,
       stderr |-> <<"Traceback", "calibre.ebooks.oeb.transforms.split.SplitError", "\n">>],
      [code |-> 1, stdout |-> <<"x", "Could not find reasonable point at which to split">>,
       stderr |-> <<>>],
      [code |-> 1, stdout |-> <<>>,
       stderr |-> <<" ", "oeb/transforms/split.py", "\n">>],
      [code |-> 1, stdout |-> <<"oeb/transforms/split.py", "x">>, stderr |-> <<"x">>],
      [code |-> 1, stdout |-> <<"could not find reasonable point at which to split">>,
       stderr |-> <<"\n">>] }

\* run_conversion_command, line 738: communicate() returns because the
\* subprocess has exited with result r. A converter that exits with code 0
\* has written its output file.
CommunicateExit(t, r) ==
    LET w == workers[t]
    IN /\ w.pc = "communicate"
       /\ Running(w.process)
       /\ procs' = {p \in procs : p.pid # w.process}
       /\ disk' = IF r.code = 0 /\ ~exists(w.output_path)
                  THEN disk \cup {w.output_path}
                  ELSE disk
       /\ workers' = [workers EXCEPT ![t] =
              [w EXCEPT !.return_code = r.code, !.stdout = r.stdout,
                        !.stderr = r.stderr, !.pc = "finally",
                        !.cancel_during = Proc(w.process).cancel_during]]
       /\ UNCHANGED <<platform, settings,
                      files_to_convert, file_keys, is_converting, cancel_requested,
                      current_process, event_queue>>

\* What the second communicate() collects from a killed converter on standard
\* error: nothing, or a traceback that ends in the split error.
PartialOutputs ==
    { <<>>,
      <<"Traceback", "calibre.ebooks.oeb.transforms.split.SplitError", "\n">> }

\* A timeout handler that neither kills the subprocess nor waits for it.
CommunicateTimeout_NoKill(t, partial) ==
    LET w == workers[t]
    IN /\ w.pc = "communicate"
       /\ Running(w.process)
       /\ workers' = [workers EXCEPT ![t] =
              [w EXCEPT !.fatal_error = [kind |-> "Timed out after",
                                         seconds |-> w.timeout_seconds],
                        !.stderr = partial,
                        !.pc = "finally",
                        !.cancel_during = Proc(w.process).cancel_during]]
       /\ event_queue' = Append(event_queue, Log("Timeout converting"))
       /\ UNCHANGED <<platform, disk, settings,
                      files_to_convert, file_keys, is_converting, cancel_requested,
                      current_process, procs>>

\* run_conversion_command, lines 743-749: communicate() raises
\* TimeoutExpired; the subprocess is killed and waited for, and `partial` is
\* what it had written to standard error.
CommunicateTimeout(t, partial) ==
    LET w == workers[t]
    IN /\ w.pc = "communicate"
       /\ Running(w.process)
       /\ procs' = {p \in procs : p.pid # w.process}
       /\ workers' = [workers EXCEPT ![t] =
              [w EXCEPT !.fatal_error = [kind |-> "Timed out after",
                                         seconds |-> w.timeout_seconds],
                        !.stderr = partial,
                        !.pc = "finally",
                        !.cancel_during = Proc(w.process).cancel_during]]
       /\ event_queue' = Append(event_queue, Log("Timeout converting"))
       /\ UNCHANGED <<platform, disk, settings,
                      files_to_convert, file_keys, is_converting, cancel_requested,
                      current_process>>

\* A finally clause that leaves the published handle in place.
Finally_HandleKept(t) ==
    /\ workers[t].pc = "finally"
    /\ UNCHANGED current_process
    /\ workers' = [workers EXCEPT ![t] = [@ EXCEPT !.pc = "classify"]]
    /\ UNCHANGED <<platform, disk, settings,
                   files_to_convert, file_keys, is_converting, cancel_requested,
                   event_queue, procs>>

\* run_conversion_command, lines 754-756: the finally clause.
Finally(t) ==
    /\ workers[t].pc = "finally"
    /\ current_process' = None
    /\ workers' = [workers EXCEPT ![t] = [@ EXCEPT !.pc = "classify"]]
    /\ UNCHANGED <<platform, disk, settings,
                   files_to_convert, file_keys, is_converting, cancel_requested,
                   event_queue, procs>>

\* delete_source_if_enabled with the Tk variable's value read by the worker;
\* remove_ok = FALSE is os.remove raising.
DeleteSucceeds(source_path, remove_ok) == isfile(source_path) /\ remove_ok

\* The failure detail of a non-zero exit: the trimmed tool output, or, when it
\* is empty, the message naming the exit code.
FailureDetail(w) ==
    IF raw_tool_output(w.stdout, w.stderr) # <<>>
    THEN [kind |-> "tool output"]
    ELSE [kind |-> IF w.attempt = 2 THEN "Retry exited with code"
                   ELSE "Process exited with code",
          code |-> w.return_code]

\* A retry test that the retry's code asks too.
WantsRetry_EveryAttempt(w) ==
    is_split_error(raw_tool_output(w.stdout, w.stderr))

\* Whether convert_file retries after a non-zero exit (lines 691-692); only
\* the first attempt's code asks.
WantsRetry(w) ==
    w.attempt = 1 /\ is_split_error(raw_tool_output(w.stdout, w.stderr))

\* A classification that reports success and leaves the source on disk
\* although it is to be deleted, and one that takes a failed deletion for a
\* success.
convert_file_result_SourceKept(w, cancel, delete_var, delete_ok) ==
    IF w.fatal_error # NoError
    THEN [status |-> "failed", detail |-> w.fatal_error, logs |-> <<>>, remove |-> FALSE]
    ELSE IF w.return_code = 0
    THEN IF delete_var # "1"
         THEN [status |-> "success", detail |-> NoError,
               logs |-> <<Log("Success")>>, remove |-> FALSE]
         ELSE IF delete_ok
         THEN [status |-> "success", detail |-> NoError,
               logs |-> <<Log("Deleted source MOBI"), Log("Success")>>, remove |-> FALSE]
         ELSE [status |-> "failed",
               detail |-> [kind |-> "Converted but could not delete source file"],
               logs |-> <<Log("could not delete source")>>, remove |-> FALSE]
    ELSE IF cancel
    THEN [status |-> "cancelled", detail |-> [kind |-> "Cancelled by user."],
          logs |-> <<Log("Cancelled")>>, remove |-> FALSE]
    ELSE IF WantsRetry(w)
    THEN [status |-> "retry", detail |-> NoError,
          logs |-> <<Log("Split error detected. Retrying")>>, remove |-> FALSE]
    ELSE [status |-> "failed", detail |-> FailureDetail(w),
          logs |-> <<Log("Error converting")>>, remove |-> FALSE]

convert_file_result_DeleteFailureIgnored(w, cancel, delete_var, delete_ok) ==
    IF w.fatal_error # NoError
    THEN [status |-> "failed", detail |-> w.fatal_error, logs |-> <<>>, remove |-> FALSE]
    ELSE IF w.return_code = 0
    THEN IF delete_var # "1"
         THEN [status |-> "success", detail |-> NoError,
               logs |-> <<Log("Success")>>, remove |-> FALSE]
         ELSE [status |-> "success", detail |-> NoError,
               logs |-> <<Log("Deleted source MOBI"), Log("Success")>>,
               remove |-> delete_ok]
    ELSE IF cancel
    THEN [status |-> "cancelled", detail |-> [kind |-> "Cancelled by user."],
          logs |-> <<Log("Cancelled")>>, remove |-> FALSE]
    ELSE IF WantsRetry(w)
    THEN [status |-> "retry", detail |-> NoError,
          logs |-> <<Log("Split error detected. Retrying")>>, remove |-> FALSE]
    ELSE [status |-> "failed", detail |-> FailureDetail(w),
          logs |-> <<Log("Error converting")>>, remove |-> FALSE]

\* A classification that looks for the split signature in the output of a
\* converter that ran into the timeout.
convert_file_result_TimeoutRetried(w, cancel, delete_var, delete_ok) ==
    IF w.fatal_error # NoError /\ ~WantsRetry(w)
    THEN [status |-> "failed", detail |-> w.fatal_error, logs |-> <<>>, remove |-> FALSE]
    ELSE IF w.fatal_error = NoError /\ w.return_code = 0
    THEN IF delete_var # "1"
         THEN [status |-> "success", detail |-> NoError,
               logs |-> <<Log("Success")>>, remove |-> FALSE]
         ELSE IF delete_ok
         THEN [status |-> "success", detail |-> NoError,
               logs |-> <<Log("Deleted source MOBI"), Log("Success")>>, remove |-> TRUE]
         ELSE [status |-> "failed",
               detail |-> [kind |-> "Converted but could not delete source file"],
               logs |-> <<Log("could not delete source")>>, remove |-> FALSE]
    ELSE IF w.fatal_error = NoError /\ cancel
    THEN [status |-> "cancelled", detail |-> [kind |-> "Cancelled by user."],
          logs |-> <<Log("Cancelled")>>, remove |-> FALSE]
    ELSE IF WantsRetry(w)
    THEN [status |-> "retry", detail |-> NoError,
          logs |-> <<Log("Split error detected. Retrying")>>, remove |-> FALSE]
    ELSE [status |-> "failed", detail |-> FailureDetail(w),
          logs |-> <<Log("Error converting")>>, remove |-> FALSE]

\* convert_file, lines 676-730 after the first attempt and 701-721 after the
\* retry: what it makes of the result of run_conversion_command. cancel is
\* self.cancel_requested, delete_var the delete-source Tk variable and
\* delete_ok whether os.remove succeeds. status "retry" is the second call of
\* run_conversion_command; remove says that the source file was deleted.
convert_file_result(w, cancel, delete_var, delete_ok) ==
    IF w.fatal_error # NoError
    THEN [status |-> "failed", detail |-> w.fatal_error, logs |-> <<>>, remove |-> FALSE]
    ELSE IF w.return_code = 0
    THEN IF delete_var # "1"
         THEN [status |-> "success", detail |-> NoError,
               logs |-> <<Log("Success")>>, remove |-> FALSE]
         ELSE IF delete_ok
         THEN [status |-> "success", detail |-> NoError,
               logs |-> <<Log("Deleted source MOBI"), Log("Success")>>, remove |-> TRUE]
         ELSE [status |-> "failed",
               detail |-> [kind |-> "Converted but could not delete source file"],
               logs |-> <<Log("could not delete source")>>, remove |-> FALSE]
    ELSE IF cancel
    THEN [status |-> "cancelled", detail |-> [kind |-> "Cancelled by user."],
          logs |-> <<Log("Cancelled")>>, remove |-> FALSE]
    ELSE IF WantsRetry(w)
    THEN [status |-> "retry", detail |-> NoError,
          logs |-> <<Log("Split error detected. Retrying")>>, remove |-> FALSE]
    ELSE [status |-> "failed", detail |-> FailureDetail(w),
          logs |-> <<Log("Error converting")>>, remove |-> FALSE]

\* convert_file from the return of run_conversion_command on: the result is
\* classified, and either the retry is set up or the call returns to the loop.
Classify(t, remove_ok) ==
    LET w == workers[t]
        mobi_file == Files(w)[w.index]
        r == convert_file_result(w, cancel_requested, settings.delete_source_var,
                                 DeleteSucceeds(mobi_file, remove_ok))
    IN /\ w.pc = "classify"
       /\ IF r.status = "retry"
          THEN /\ workers' = [workers EXCEPT ![t] =
                      [w EXCEPT !.attempt = 2, !.process = None, !.return_code = 0,
                                !.stdout = <<>>, !.stderr = <<>>,
                                !.cancel_during = FALSE, !.pc = "popen"]]
               /\ event_queue' = event_queue \o r.logs
          ELSE Return(t, r.logs, r.status, r.detail)
       /\ disk' = IF r.remove THEN {f \in disk : FsKey(f) # FsKey(mobi_file)} ELSE disk
       /\ UNCHANGED <<platform, settings, files_to_convert, file_keys, is_converting,
                      cancel_requested, current_process, procs>>

\* A thread that ends without its terminal summary.
Finish_NoSummary(t) ==
    /\ workers[t].pc = "finish"
    /\ workers' = [workers EXCEPT ![t] = Done]
    /\ UNCHANGED <<platform, disk, settings,
                   files_to_convert, file_keys, is_converting, cancel_requested,
                   current_process, event_queue, procs>>

\* convert_all, line 665: the terminal summary; the thread then ends.
Finish(t) ==
    /\ workers[t].pc = "finish"
    /\ event_queue' = Append(event_queue, Finished(workers[t]))
    /\ workers' = [workers EXCEPT ![t] = Done]
    /\ UNCHANGED <<platform, disk, settings,
                   files_to_convert, file_keys, is_converting, cancel_requested,
                   current_process, procs>>

\* ------------------------------------------------------------- controller
\* int(raw_value) for the texts a user types into the timeout box; ok = FALSE
\* is int() raising ValueError.
ParseInt(raw) ==
    CASE raw = "600" -> [ok |-> TRUE, value |-> 600]
      [] raw = "30" -> [ok |-> TRUE, value |-> 30]
      [] raw = "7200" -> [ok |-> TRUE, value |-> 7200]
      [] raw = "29" -> [ok |-> TRUE, value |-> 29]
      [] raw = "7201" -> [ok |-> TRUE, value |-> 7201]
      [] OTHER -> [ok |-> FALSE, value |-> 0]

\* A validation whose lower limit is one second too low.
get_timeout_seconds_From29(raw) ==
    LET timeout == ParseInt(raw)
    IN IF ~timeout.ok THEN [ok |-> FALSE, value |-> 0]
       ELSE IF timeout.value < 29 THEN [ok |-> FALSE, value |-> 0]
       ELSE IF timeout.value > 7200 THEN [ok |-> FALSE, value |-> 0]
       ELSE timeout

\* get_timeout_seconds; ok = FALSE is the ValueError it raises.
get_timeout_seconds(raw) ==
    LET timeout == ParseInt(raw)
    IN IF ~timeout.ok THEN [ok |-> FALSE, value |-> 0]
       ELSE IF timeout.value < 30 THEN [ok |-> FALSE, value |-> 0]
       ELSE IF timeout.value > 7200 THEN [ok |-> FALSE, value |-> 0]
       ELSE timeout

\* __init__, lines 126-129: the values the Tk variables start with.
DefaultSettings ==
    [existing_policy |-> POLICY_SKIP,
     failure_policy |-> FAIL_POLICY_KEEP,
     timeout_seconds_var |-> "600",
     delete_source_var |-> "0",
     output_dir_var |-> None]

\* The settings a user makes in the window: combinations of the existing-output
\* policy, the failure policy, the timeout text, the delete-source box and the
\* output folder (None: beside the source).
UserSettings ==
    { DefaultSettings,
      [DefaultSettings EXCEPT !.failure_policy = FAIL_POLICY_REMOVE,
                              !.delete_source_var = "1",
                              !.timeout_seconds_var = "30"],
      [DefaultSettings EXCEPT !.existing_policy = POLICY_OVERWRITE,
                              !.delete_source_var = "1",
                              !.timeout_seconds_var = "7200"],
      [DefaultSettings EXCEPT !.existing_policy = POLICY_RENAME,
                              !.failure_policy = FAIL_POLICY_REMOVE,
                              !.output_dir_var = cwd \o <<Nm("d", "")>>],
      [DefaultSettings EXCEPT !.timeout_seconds_var = "29"],
      [DefaultSettings EXCEPT !.timeout_seconds_var = "7201"],
      [DefaultSettings EXCEPT !.timeout_seconds_var = "abc"],
      [DefaultSettings EXCEPT !.output_dir_var = cwd \o <<Nm("missing", "")>>] }

\* A start_conversion that never finds a run in progress.
Busy_Never == FALSE

\* Whether start_conversion refuses to start while a run is active (line 602).
Busy == is_converting

\* What shutil.which("ebook-convert") can return; NoCommand is None.
NoCommand == ""

WhichResults == {NoCommand, "/usr/bin/ebook-convert"}

\* Early returns that do not look at what shutil.which found.
StartRefused_WhichIgnored(which) ==
    \/ Busy
    \/ files_to_convert = <<>>
    \/ ~get_timeout_seconds(settings.timeout_seconds_var).ok
    \/ (settings.output_dir_var # None /\ ~isdir(settings.output_dir_var))

\* start_conversion, lines 602-619: the checks that end the call early.
StartRefused(which) ==
    \/ Busy
    \/ files_to_convert = <<>>
    \/ which = NoCommand
    \/ ~get_timeout_seconds(settings.timeout_seconds_var).ok
    \/ (settings.output_dir_var # None /\ ~isdir(settings.output_dir_var))

\* A start that leaves the cancellation flag as the previous run left it.
StartConversion_FlagKept(which, max_runs) ==
    /\ IF StartRefused(which)
       THEN UNCHANGED <<cancel_requested, is_converting, workers>>
       ELSE /\ Len(workers) < max_runs
            /\ UNCHANGED cancel_requested
            /\ is_converting' = TRUE
            /\ workers' = Append(workers,
                   Worker(files_to_convert, settings.existing_policy,
                          get_timeout_seconds(settings.timeout_seconds_var).value,
                          which, settings.output_dir_var))
    /\ UNCHANGED <<platform, disk, settings,
                   files_to_convert, file_keys, current_process, event_queue, procs>>

\* start_conversion; `which` is what shutil.which("ebook-convert") returns, and
\* max_runs bounds the runs of a behaviour.
StartConversion(which, max_runs) ==
    /\ IF StartRefused(which)
       THEN UNCHANGED <<cancel_requested, is_converting, workers>>
       ELSE /\ Len(workers) < max_runs
            /\ cancel_requested' = FALSE
            /\ is_converting' = TRUE
            /\ workers' = Append(workers,
                   Worker(files_to_convert, settings.existing_policy,
                          get_timeout_seconds(settings.timeout_seconds_var).value,
                          which, settings.output_dir_var))
    /\ UNCHANGED <<platform, disk, settings,
                   files_to_convert, file_keys, current_process, event_queue, procs>>

\* cancel_conversion.
CancelConversion ==
    /\ IF ~is_converting
       THEN UNCHANGED <<cancel_requested, procs>>
       ELSE /\ cancel_requested' = TRUE
            /\ procs' = {[p EXCEPT !.signalled = @ \/ (p.pid = current_process),
                                   !.cancel_during = TRUE] : p \in procs}
    /\ UNCHANGED <<platform, disk, settings,
                   files_to_convert, file_keys, is_converting, current_process,
                   event_queue, workers>>

\* A post-run removal that leaves the failed requests queued under either
\* failure policy, and one that leaves the skipped requests queued.
on_conversion_finished_KeepsFailed(q, keys, ev) ==
    LET success_inputs == [i \in DOMAIN ev.successes |-> ev.successes[i][1]]
        processed == Keys(success_inputs \o ev.skipped)
        kept == SelectSeq(q, LAMBDA path : canonical_path(path) \notin processed)
    IN IF processed # {}
       THEN [q |-> kept, keys |-> Keys(kept)]
       ELSE [q |-> q, keys |-> keys]

on_conversion_finished_KeepsSkipped(q, keys, ev) ==
    LET success_inputs == [i \in DOMAIN ev.successes |-> ev.successes[i][1]]
        failed_inputs == [i \in DOMAIN ev.failures |-> ev.failures[i][1]]
        processed == Keys(success_inputs)
                        \cup (IF settings.failure_policy = FAIL_POLICY_REMOVE
                              THEN Keys(failed_inputs) ELSE {})
        kept == SelectSeq(q, LAMBDA path : canonical_path(path) \notin processed)
    IN IF processed # {}
       THEN [q |-> kept, keys |-> Keys(kept)]
       ELSE [q |-> q, keys |-> keys]

\* A post-run removal that drops the whole snapshot of the run from the queue.
on_conversion_finished_DropsSnapshot(q, keys, ev) ==
    LET kept == SubSeq(q, ev.total + 1, Len(q))
    IN IF ev.processed_count > 0
       THEN [q |-> kept, keys |-> Keys(kept)]
       ELSE [q |-> q, keys |-> keys]

\* A post-run removal that takes the requests out of the queue and leaves
\* the keys as they were.
on_conversion_finished_StaleKeys(q, keys, ev) ==
    LET success_inputs == [i \in DOMAIN ev.successes |-> ev.successes[i][1]]
        failed_inputs == [i \in DOMAIN ev.failures |-> ev.failures[i][1]]
        processed == Keys(success_inputs \o ev.skipped)
                        \cup (IF settings.failure_policy = FAIL_POLICY_REMOVE
                              THEN Keys(failed_inputs) ELSE {})
        kept == SelectSeq(q, LAMBDA path : canonical_path(path) \notin processed)
    IN IF processed # {}
       THEN [q |-> kept, keys |-> keys]
       ELSE [q |-> q, keys |-> keys]

\* on_conversion_finished, lines 826-834: the queue and the keys after the
\* post-run removal.
on_conversion_finished(q, keys, ev) ==
    LET success_inputs == [i \in DOMAIN ev.successes |-> ev.successes[i][1]]
        failed_inputs == [i \in DOMAIN ev.failures |-> ev.failures[i][1]]
        processed == Keys(success_inputs \o ev.skipped)
                        \cup (IF settings.failure_policy = FAIL_POLICY_REMOVE
                              THEN Keys(failed_inputs) ELSE {})
        kept == SelectSeq(q, LAMBDA path : canonical_path(path) \notin processed)
    IN IF processed # {}
       THEN [q |-> kept, keys |-> Keys(kept)]
       ELSE [q |-> q, keys |-> keys]

\* The loop of process_event_queue over the events it finds, from the i-th on:
\* st is the queue, the keys and is_converting.
RECURSIVE Drain(_, _, _)
Drain(events, i, st) ==
    IF i > Len(events) THEN st
    ELSE IF events[i].type = "finished"
         THEN LET r == on_conversion_finished(st.q, st.keys, events[i])
              IN Drain(events, i + 1, [q |-> r.q, keys |-> r.keys, converting |-> FALSE])
         ELSE Drain(events, i + 1, st)

\* A poll that handles the finished event and leaves the run marked active.
ProcessEventQueue_StaysBusy ==
    LET st == Drain(event_queue, 1,
                    [q |-> files_to_convert, keys |-> file_keys,
                     converting |-> is_converting])
    IN /\ event_queue # <<>>
       /\ event_queue' = <<>>
       /\ files_to_convert' = st.q
       /\ file_keys' = st.keys
       /\ UNCHANGED <<platform, disk, settings, is_converting,
                      cancel_requested, current_process, workers, procs>>

\* process_event_queue: one poll of the controller.
ProcessEventQueue ==
    LET st == Drain(event_queue, 1,
                    [q |-> files_to_convert, keys |-> file_keys,
                     converting |-> is_converting])
    IN /\ event_queue # <<>>
       /\ event_queue' = <<>>
       /\ files_to_convert' = st.q
       /\ file_keys' = st.keys
       /\ is_converting' = st.converting
       /\ UNCHANGED <<platform, disk, settings,
                      cancel_requested, current_process, workers, procs>>

\* The user changes the settings; their widgets are disabled while a run is
\* active (set_conversion_controls, lines 1071-1076).
Configure(s) ==
    /\ ~is_converting
    /\ settings' = s
    /\ UNCHANGED <<platform, disk, files_to_convert, file_keys, is_converting,
                   cancel_requested, current_process, event_queue, workers, procs>>

\* ---------------------------------------------------------- specification
\* The files on disk when the program starts.
InitialDisk ==
    { cwd \o <<Nm("a", "mobi")>>,
      cwd \o <<Nm("d", ""), Nm("b", "MOBI")>>,
      cwd \o <<Nm("n", "txt")>>,
      cwd \o <<Nm("a", "epub")>> }

\* __init__, lines 112-129.
Init ==
    /\ platform \in {"posix", "nt"}
    /\ disk = InitialDisk
    /\ settings = DefaultSettings
    /\ files_to_convert = <<>>
    /\ file_keys = {}
    /\ is_converting = FALSE
    /\ cancel_requested = FALSE
    /\ current_process = None
    /\ event_queue = <<>>
    /\ workers = <<>>
    /\ procs = {}

\* The paths enqueued in Spec: one spelling of each source file.
DriverPaths ==
    { <<Nm("a", "mobi")>>, <<Nm("d", ""), Nm("b", "MOBI")>> }

\* The whole program with a converter that can fail in every way.
Next ==
    \/ \E input \in DriverPaths : QueuePath(input)
    \/ \E confirmed \in BOOLEAN : ClearList(confirmed)
    \/ \E s \in UserSettings : Configure(s)
    \/ \E which \in WhichResults : StartConversion(which, MaxRuns)
    \/ CancelConversion
    \/ ProcessEventQueue
    \/ \E t \in Threads : ForLoop(t)
    \/ \E t \in Threads, listdir_ok \in BOOLEAN : ConvertFile(t, listdir_ok)
    \/ \E t \in Threads, how \in {"spawned", "FileNotFoundError", "OSError"} : Popen(t, how)
    \/ \E t \in Threads : Publish(t)
    \/ \E t \in Threads, r \in ExitResults : CommunicateExit(t, r)
    \/ \E t \in Threads, partial \in PartialOutputs : CommunicateTimeout(t, partial)
    \/ \E t \in Threads : Finally(t)
    \/ \E t \in Threads, remove_ok \in BOOLEAN : Classify(t, remove_ok)
    \/ \E t \in Threads : Finish(t)

\* Spec runs on Windows, where a path and its canonical form differ; with one
\* spelling per file the converter's part does not depend on the platform.
InitDriver == Init /\ platform = "nt"

Spec == InitDriver /\ [][Next]_vars

\* The converter results of SpecLive: success, death by the termination
\* signal, and split errors reported on standard error.
LiveResults == {r \in ExitResults : r.code = 0 \/ r.stdout = <<>>}

\* The settings made in SpecLive.
LiveSettings == {s \in UserSettings : s.timeout_seconds_var \in {"600", "30"}}

\* A step of worker thread t, whatever the environment answers.
WorkerStep(t) ==
    \/ ForLoop(t)
    \/ \E listdir_ok \in BOOLEAN : ConvertFile(t, listdir_ok)
    \/ \E how \in {"spawned", "FileNotFoundError", "OSError"} : Popen(t, how)
    \/ Publish(t)
    \/ \E r \in LiveResults : CommunicateExit(t, r)
    \/ \E partial \in PartialOutputs : CommunicateTimeout(t, partial)
    \/ Finally(t)
    \/ \E remove_ok \in BOOLEAN : Classify(t, remove_ok)
    \/ Finish(t)

\* The controller's operations and the worker's steps.
NextLive ==
    \/ \E input \in DriverPaths : QueuePath(input)
    \/ \E confirmed \in BOOLEAN : ClearList(confirmed)
    \/ \E s \in LiveSettings : Configure(s)
    \/ \E which \in WhichResults : StartConversion(which, MaxLiveRuns)
    \/ CancelConversion
    \/ ProcessEventQueue
    \/ \E t \in Threads : WorkerStep(t)

\* The program under a scheduler that keeps running a live worker thread;
\* every blocking call of the thread returns: communicate() when the
\* subprocess exits or at the timeout, and after kill() at the subprocess's
\* death.
SpecLive ==
    InitDriver /\ [][NextLive]_vars /\ WF_vars(\E t \in Threads : WorkerStep(t))

\* The step is a poll that found events: process_event_queue takes events
\* until the event queue is empty, and nothing else takes an event; handling
\* them can take requests out of the queue and end the run, and touches
\* nothing else.
Polls ==
    /\ event_queue # <<>>
    /\ event_queue' = <<>>
    /\ files_to_convert' \in
          {SelectSeq(files_to_convert, LAMBDA path : path \in kept) :
              kept \in SUBSET {files_to_convert[i] : i \in DOMAIN files_to_convert}}
    /\ file_keys' \in SUBSET file_keys
    /\ is_converting' \in BOOLEAN
    /\ UNCHANGED <<platform, disk, settings,
                   cancel_requested, current_process, workers, procs>>

\* SpecLive with a controller that keeps polling: process_event_queue
\* reschedules itself every EVENT_POLL_MS (line 816), so a non-empty event
\* queue is drained in the end.
SpecPoll == SpecLive /\ WF_vars(Polls)

\* The results of a converter that runs to its end without a split error.
PlainResults == {r \in ExitResults : r.code = 0 \/ r.stdout = <<"x">>}

\* The settings made in SpecQueue: sources whose output exists are skipped.
QueueSettings == {s \in UserSettings : s.existing_policy = POLICY_SKIP}

\* The whole program over every path spelling and several runs, with an
\* environment that does not fail: the converter is spawned and exits, files
\* can be listed and removed.
NextQueue ==
    \/ \E input \in PathInputs : QueuePath(input)
    \/ \E confirmed \in BOOLEAN : ClearList(confirmed)
    \/ \E s \in QueueSettings : Configure(s)
    \/ \E which \in WhichResults : StartConversion(which, MaxQueueRuns)
    \/ CancelConversion
    \/ ProcessEventQueue
    \/ \E t \in Threads : ForLoop(t)
    \/ \E t \in Threads : ConvertFile(t, TRUE)
    \/ \E t \in Threads : Popen(t, "spawned")
    \/ \E t \in Threads : Publish(t)
    \/ \E t \in Threads, r \in PlainResults : CommunicateExit(t, r)
    \/ \E t \in Threads : Finally(t)
    \/ \E t \in Threads : Classify(t, TRUE)
    \/ \E t \in Threads : Finish(t)

SpecQueue == Init /\ [][NextQueue]_vars

\* Converted files that may lie on disk when the program starts: numbered
\* names beside the source a.mobi, one of them in other letter case, and
\* outputs in the folder d.
EarlierOutputs ==
    { cwd \o <<[stem |-> "a", ext |-> "epub", n |-> 1]>>,
      cwd \o <<[stem |-> "a", ext |-> "epub", n |-> 2]>>,
      cwd \o <<[stem |-> "A", ext |-> "EPUB", n |-> 3]>>,
      cwd \o <<Nm("d", ""), Nm("a", "epub")>>,
      cwd \o <<Nm("d", ""), [stem |-> "a", ext |-> "epub", n |-> 2]>> }

\* __init__ with any of the earlier outputs on disk.
InitResolve ==
    /\ platform \in {"posix", "nt"}
    /\ disk \in {InitialDisk \cup outputs : outputs \in SUBSET EarlierOutputs}
    /\ settings = DefaultSettings
    /\ files_to_convert = <<>>
    /\ file_keys = {}
    /\ is_converting = FALSE
    /\ cancel_requested = FALSE
    /\ current_process = None
    /\ event_queue = <<>>
    /\ workers = <<>>
    /\ procs = {}

\* The settings made in SpecResolve: each existing-output policy, beside the
\* source and into the folder d.
ResolveSettings ==
    { [DefaultSettings EXCEPT !.existing_policy = policy, !.output_dir_var = folder] :
         policy \in {POLICY_SKIP, POLICY_OVERWRITE, POLICY_RENAME},
         folder \in {None, cwd \o <<Nm("d", "")>>} }

\* The program resolving output paths over the disks of InitResolve, with a
\* converter that is found, spawned and exits with code 0; listing the
\* destination folder may fail.
NextResolve ==
    \/ QueuePath(<<Nm("a", "mobi")>>)
    \/ \E s \in ResolveSettings : Configure(s)
    \/ StartConversion("/usr/bin/ebook-convert", MaxResolveRuns)
    \/ ProcessEventQueue
    \/ \E t \in Threads : ForLoop(t)
    \/ \E t \in Threads, listdir_ok \in BOOLEAN : ConvertFile(t, listdir_ok)
    \/ \E t \in Threads : Popen(t, "spawned")
    \/ \E t \in Threads : Publish(t)
    \/ \E t \in Threads, r \in {x \in ExitResults : x.code = 0} : CommunicateExit(t, r)
    \/ \E t \in Threads : Finally(t)
    \/ \E t \in Threads : Classify(t, TRUE)
    \/ \E t \in Threads : Finish(t)

SpecResolve == InitResolve /\ [][NextResolve]_vars

\* -------------------------------------------------------------- properties
\* C1: in every reachable state the Work Queue holds no two requests with the
\* same canonical path.
C1_NoDuplicateRequests ==
    \A i, j \in DOMAIN files_to_convert :
        i # j => canonical_path(files_to_convert[i]) # canonical_path(files_to_convert[j])

\* A run has been handled to its end, and the queue again holds two requests,
\* one of them under a spelling that differs from its canonical path.
C1_Witness ==
    /\ Len(workers) >= 1
    /\ ~is_converting
    /\ Len(files_to_convert) = 2
    /\ \E i \in DOMAIN files_to_convert :
          files_to_convert[i] # canonical_path(files_to_convert[i])

\* The spellings of existing .mobi files among the paths enqueued.
FileSpellings == {p \in PathInputs : isfile(abspath(p)) /\ EndsWithMobi(abspath(p))}

\* C2: an enqueue of a file whose canonical path is not queued appends it and
\* reports it added; from then on an enqueue of any spelling of the same
\* canonical path reports not added and leaves the queue and its order as they
\* are; an enqueue of a path that is queued changes nothing.
C2_EnqueueTwiceAddsOnce ==
    [][\A p \in FileSpellings :
          QueuePath(p) =>
             IF canonical_path(p) \in Keys(files_to_convert)
             THEN /\ files_to_convert' = files_to_convert
                  /\ QueuePathFile(files_to_convert, file_keys, abspath(p)).added = 0
             ELSE /\ files_to_convert' = Append(files_to_convert, abspath(p))
                  /\ QueuePathFile(files_to_convert, file_keys, abspath(p)).added = 1
                  /\ \A p2 \in FileSpellings :
                        canonical_path(p2) = canonical_path(p) =>
                           LET again == QueuePathFile(files_to_convert', file_keys', abspath(p2))
                           IN again.added = 0 /\ again.q = files_to_convert'
      ]_vars

\* A file is queued, and another spelling of its canonical path can be enqueued.
C2_Witness ==
    \E i \in DOMAIN files_to_convert : \E p \in FileSpellings :
        /\ canonical_path(p) = canonical_path(files_to_convert[i])
        /\ abspath(p) # files_to_convert[i]

\* Whether the paths of the sequence s stand in the order of `files`.
InOrderOf(files, s) ==
    /\ \A i \in DOMAIN s : \E k \in DOMAIN files : files[k] = s[i]
    /\ \A i, j \in DOMAIN s :
          i < j => \A k, l \in DOMAIN files :
                      (files[k] = s[i] /\ files[l] = s[j]) => k < l

\* What a live worker has attempted so far is exactly the first index - 1
\* requests of the snapshot it was started with, each outcome list in snapshot
\* order, and a subprocess it runs converts the snapshot's request at index.
AttemptsFollowSnapshot(t) ==
    LET w == workers[t]
        ok == [i \in DOMAIN w.successes |-> w.successes[i][1]]
        ko == [i \in DOMAIN w.failures |-> w.failures[i][1]]
        range(q) == {q[i] : i \in DOMAIN q}
    IN /\ w.index - 1 <= Len(w.files)
       /\ Len(ok) + Len(w.skipped) + Len(ko) = w.index - 1
       /\ range(ok) \cup range(w.skipped) \cup range(ko)
             = {w.files[i] : i \in 1..(w.index - 1)}
       /\ InOrderOf(w.files, ok)
       /\ InOrderOf(w.files, w.skipped)
       /\ InOrderOf(w.files, ko)
       /\ w.pc \in {"convert_file", "popen", "publish", "communicate", "finally", "classify"}
             => w.index <= Len(w.files)
       /\ \A p \in procs :
             p.pid[1] = t => (w.index <= Len(w.files) /\ p.command[2] = w.files[w.index])

\* C3: a Batch Run attempts the requests of its snapshot and no others, in
\* snapshot order, so a request enqueued during the run is not attempted by
\* it; and no step of the worker adds to, removes from or reorders the live
\* queue.
C3_RunAttemptsItsSnapshot ==
    [][/\ \A t \in DOMAIN workers' : workers'[t].pc # "done" => AttemptsFollowSnapshot(t)'
       /\ (Len(workers') = Len(workers) /\ workers' # workers)
             => UNCHANGED <<files_to_convert, file_keys>>
      ]_vars

\* A worker is through its snapshot while the live queue holds a request that
\* was enqueued after the run started.
C3_Witness ==
    \E t \in Threads :
        /\ workers[t].pc = "finish"
        /\ workers[t].index > Len(workers[t].files)
        /\ Len(workers[t].successes) >= 1
        /\ Len(files_to_convert) > Len(workers[t].files)

\* The worker threads that have not returned from convert_all.
AliveThreads == {t \in Threads : Alive(t)}

\* The finished events that the controller has not handled yet.
PendingFinished == {i \in DOMAIN event_queue : event_queue[i].type = "finished"}

\* C4: at most one worker thread is alive, and at most one run is between its
\* start and the handling of its finished event; throughout that window the
\* application is converting, and while it is converting no step (a click on
\* Convert included) creates a worker thread.
C4_SingleBatchRun ==
    [][/\ Cardinality(AliveThreads') + Cardinality(PendingFinished') <= 1
       /\ (AliveThreads' # {} \/ PendingFinished' # {}) <=> is_converting'
       /\ is_converting => Len(workers') = Len(workers)
      ]_vars

\* A second run has ended its loop, its finished event waits in the event
\* queue, and Convert is still refused.
C4_Witness ==
    /\ Len(workers) = 2
    /\ AliveThreads = {}
    /\ PendingFinished # {}
    /\ is_converting
    /\ files_to_convert # <<>>

\* C5: at most one converter subprocess is in flight; it belongs to the one
\* live worker, which is inside run_conversion_command for it.
C5_OneSubprocess ==
    /\ Cardinality(procs) <= 1
    /\ \A p \in procs :
          /\ p.pid[1] \in AliveThreads
          /\ workers[p.pid[1]].process = p.pid
          /\ workers[p.pid[1]].pc \in {"publish", "communicate"}

\* The split-safe retry of the second request of a run is in flight.
C5_Witness ==
    \E p \in procs : p.pid[2] = 2 /\ p.pid[3] = 2

\* The step is thread t leaving the classification of a subprocess result.
Classifies(t) ==
    /\ t \in Threads
    /\ workers[t].pc = "classify"
    /\ workers'[t] # workers[t]

\* Thread t's step gives the request in hand the outcome Cancelled: it is
\* recorded among the failures with the cancellation detail, the run is
\* marked cancelled and the loop is left.
BecomesCancelled(t) ==
    LET w == workers[t]
    IN /\ workers'[t].pc = "finish"
       /\ workers'[t].cancelled
       /\ workers'[t].failures =
             Append(w.failures, <<w.files[w.index], [kind |-> "Cancelled by user."]>>)
       /\ workers'[t].successes = w.successes
       /\ workers'[t].skipped = w.skipped

\* Thread t's step gives the request in hand the outcome Failed with a detail
\* other than the cancellation's, and the loop goes on.
BecomesFailed(t) ==
    LET w == workers[t]
    IN /\ workers'[t].pc = "for"
       /\ ~workers'[t].cancelled
       /\ Len(workers'[t].failures) = Len(w.failures) + 1
       /\ workers'[t].failures[Len(w.failures) + 1][1] = w.files[w.index]
       /\ workers'[t].failures[Len(w.failures) + 1][2] # [kind |-> "Cancelled by user."]
       /\ workers'[t].successes = w.successes
       /\ workers'[t].skipped = w.skipped

\* C6 as stated: a cancellation accepted while the request's subprocess was
\* running gives the request the outcome Cancelled however the subprocess
\* ended.
C6_CancelledHoweverItEnds ==
    [][\A t \in DOMAIN workers :
          (Classifies(t) /\ workers[t].cancel_during) => BecomesCancelled(t)
      ]_vars

\* C7 as stated: no converter subprocess is started while the cancellation
\* flag is set.
C7_NoSpawnOnceCancelled ==
    [][~(procs' \subseteq procs) => ~cancel_requested]_vars

\* C8: the processed count of every terminal summary is the number of
\* requests that received an outcome (successes, skips and failures, the
\* cancelled request among the failures), never more than the snapshot
\* length; a worker about to emit its summary has counted the requests its
\* loop went through.
C8_ProcessedCountIsAttempts ==
    /\ \A i \in DOMAIN event_queue :
          event_queue[i].type = "finished" =>
             /\ event_queue[i].processed_count =
                   Len(event_queue[i].successes) + Len(event_queue[i].skipped)
                      + Len(event_queue[i].failures)
             /\ event_queue[i].processed_count <= event_queue[i].total
    /\ \A t \in Threads :
          workers[t].pc = "finish" =>
             /\ workers[t].processed_count = workers[t].index - 1
             /\ workers[t].processed_count =
                   Len(workers[t].successes) + Len(workers[t].skipped)
                      + Len(workers[t].failures)

\* The summary of a cancelled run of two requests: one was attempted, and it
\* got the outcome Cancelled.
C8_Witness ==
    \E i \in DOMAIN event_queue :
        /\ event_queue[i].type = "finished"
        /\ event_queue[i].cancelled
        /\ event_queue[i].total = 2
        /\ event_queue[i].processed_count = 1
        /\ Len(event_queue[i].failures) = 1

\* The step is thread t classifying the non-zero exit of a first invocation
\* while no cancellation is requested.
ClassifiesFirstFailure(t) ==
    /\ Classifies(t)
    /\ workers[t].attempt = 1
    /\ workers[t].fatal_error = NoError
    /\ workers[t].return_code # 0
    /\ ~cancel_requested

\* Thread t's step sets up the second invocation of the converter.
Retries(t) ==
    /\ workers'[t].pc = "popen"
    /\ workers'[t].attempt = 2
    /\ workers'[t].index = workers[t].index

\* Some token of the text is one of the split markers, letter case aside.
HasMarker(text) ==
    \E i \in DOMAIN text : text_lower(<<text[i]>>)[1] \in split_markers

\* C9 as stated: the retry is issued if and only if the two streams together
\* hold a split marker, wherever it stands.
C9_RetryIffMarkerInEitherStream ==
    [][\A t \in DOMAIN workers :
          ClassifiesFirstFailure(t) =>
             (Retries(t) <=> HasMarker(workers[t].stderr \o workers[t].stdout))
      ]_vars


\* C10: a request's converter runs are its first invocation and at most one
\* retry. The retry is set up only by the classification of a first
\* invocation that exited non-zero with the split signature, and its command
\* line is the first one's followed by the split-disabling flags; the
\* classification of a retry always returns to the loop, and a retry that
\* exits non-zero while no cancellation is requested makes the request Failed.
C10_AtMostOneRetry ==
    [][/\ \A p \in procs' :
             /\ p.pid[3] \in {1, 2}
             /\ Len(p.command) = IF p.pid[3] = 2 THEN 3 + Len(SPLIT_RETRY_FLAGS) ELSE 3
             /\ p.pid[3] = 2 => SubSeq(p.command, 4, Len(p.command)) = SPLIT_RETRY_FLAGS
             /\ ~Running(p.pid) => workers[p.pid[1]].pc = "popen"
       /\ \A t \in DOMAIN workers :
             /\ (workers'[t].pc = "popen" /\ workers[t].pc # "popen") =>
                   \/ workers[t].pc = "convert_file" /\ workers'[t].attempt = 1
                   \/ /\ workers[t].pc = "classify"
                      /\ workers[t].attempt = 1
                      /\ workers'[t].attempt = 2
                      /\ workers[t].fatal_error = NoError
                      /\ workers[t].return_code # 0
                      /\ HasMarker(workers[t].stdout \o workers[t].stderr)
             /\ (Classifies(t) /\ workers[t].attempt = 2) =>
                   /\ workers'[t].pc \in {"for", "finish"}
                   /\ workers'[t].index = workers[t].index + 1
                   /\ (workers[t].fatal_error = NoError /\ workers[t].return_code # 0
                          /\ ~cancel_requested) => BecomesFailed(t)
      ]_vars

\* A retry has exited non-zero with the split signature in its output again,
\* and no cancellation is requested.
C10_Witness ==
    \E t \in Threads :
        /\ workers[t].pc = "classify"
        /\ workers[t].attempt = 2
        /\ workers[t].fatal_error = NoError
        /\ workers[t].return_code = 1
        /\ HasMarker(workers[t].stderr)
        /\ ~cancel_requested

\* The step is the controller handling the finished event ev.
Handles(ev) ==
    /\ \E i \in PendingFinished : event_queue[i] = ev
    /\ event_queue' = <<>>

\* The finished events waiting in the event queue.
FinishedEvents == {event_queue[i] : i \in PendingFinished}

\* The paths of a sequence of (path, detail) or (path, output) pairs.
Inputs(pairs) == {pairs[i][1] : i \in DOMAIN pairs}

\* The paths of a sequence.
Range(q) == {q[i] : i \in DOMAIN q}

\* C11: when the controller has handled a run's finished event, under
\* Remove-failed no failed request of the run is queued any more; under
\* Keep-failed every failed request is still queued, what is left of the
\* queue stands in its former order, and an enqueue of any spelling of a
\* failed request's canonical path is rejected as a duplicate.
C11_FailurePolicyApplied ==
    [][\A ev \in FinishedEvents :
          Handles(ev) =>
             /\ files_to_convert' =
                   SelectSeq(files_to_convert, LAMBDA p : p \in Range(files_to_convert'))
             /\ \A f \in Inputs(ev.failures) :
                   IF settings.failure_policy = FAIL_POLICY_REMOVE
                   THEN /\ f \notin Range(files_to_convert')
                        /\ canonical_path(f) \notin Keys(files_to_convert')
                   ELSE /\ f \in Range(files_to_convert')
                        /\ \A p \in PathInputs :
                              canonical_path(p) = canonical_path(f) =>
                                 QueuePathFile(files_to_convert', file_keys',
                                               abspath(p)).added = 0
      ]_vars

\* The summary of a run in which both requests failed waits to be handled
\* while the failure policy is Remove-failed.
C11_Witness ==
    \E ev \in FinishedEvents :
        /\ Len(ev.failures) = 2
        /\ ~ev.cancelled
        /\ settings.failure_policy = FAIL_POLICY_REMOVE
        /\ Len(files_to_convert) = 2

\* C12: when the controller has handled a run's finished event, no request
\* that the run converted or skipped is queued any more, whatever the failure
\* policy and whether or not the run was cancelled.
C12_ResolvedRequestsLeaveQueue ==
    [][\A ev \in FinishedEvents :
          Handles(ev) =>
             \A p \in Inputs(ev.successes) \cup Range(ev.skipped) :
                /\ p \notin Range(files_to_convert')
                /\ canonical_path(p) \notin Keys(files_to_convert')
                /\ canonical_path(p) \notin file_keys'
      ]_vars

\* The summary of a cancelled run waits to be handled: its first request was
\* skipped, its second cancelled, and failed requests are kept.
C12_Witness ==
    \E ev \in FinishedEvents :
        /\ ev.cancelled
        /\ Len(ev.skipped) = 1
        /\ Len(ev.failures) = 1
        /\ settings.failure_policy = FAIL_POLICY_KEEP

\* The timeout text is a whole number between 30 and 7200.
TimeoutValid(raw) ==
    ParseInt(raw).ok /\ ParseInt(raw).value >= 30 /\ ParseInt(raw).value <= 7200

\* C13: the timeout texts accepted are the whole numbers from 30 to 7200, the
\* limits included; while the timeout box holds anything else no step (a
\* click on Convert included) creates a worker thread, spawns a subprocess or
\* changes the active-run flag or the cancellation flag, and a click on
\* Convert leaves the queue as it is.
C13_TimeoutOutOfRangeRejected ==
    [][/\ /\ get_timeout_seconds(settings.timeout_seconds_var).ok
                   <=> TimeoutValid(settings.timeout_seconds_var)
          /\ TimeoutValid(settings.timeout_seconds_var) =>
                get_timeout_seconds(settings.timeout_seconds_var).value
                   = ParseInt(settings.timeout_seconds_var).value
       /\ ~TimeoutValid(settings.timeout_seconds_var) =>
             /\ UNCHANGED <<workers, procs, is_converting, cancel_requested>>
             /\ UNCHANGED <<files_to_convert, file_keys, event_queue>>
                   \/ ~(\E which \in WhichResults : StartConversion(which, MaxRuns))
       /\ \A t \in DOMAIN workers' :
             t \notin DOMAIN workers =>
                /\ TimeoutValid(settings.timeout_seconds_var)
                /\ workers'[t].timeout_seconds = ParseInt(settings.timeout_seconds_var).value
      ]_vars

\* Requests are queued, no run was ever started, and the timeout box holds
\* 7201.
C13_Witness ==
    /\ files_to_convert # <<>>
    /\ ~is_converting
    /\ workers = <<>>
    /\ settings.timeout_seconds_var = "7201"

\* C14: a click on Convert while the converter is not on the search path
\* changes nothing: no worker thread, no subprocess, no event, the queue and
\* the run state as they were. While the output folder that is set does not
\* exist, no step creates a worker thread, spawns a subprocess, emits an event
\* or changes the run state, and a click on Convert leaves the queue as it is.
C14_MissingToolOrFolderRejected ==
    [][/\ UNCHANGED <<workers, procs, event_queue, is_converting, cancel_requested,
                       files_to_convert, file_keys, current_process>>
             \/ ~StartConversion(NoCommand, MaxRuns)
       /\ (settings.output_dir_var # None /\ ~isdir(settings.output_dir_var)) =>
             /\ UNCHANGED <<workers, procs, event_queue, is_converting, cancel_requested>>
             /\ UNCHANGED <<files_to_convert, file_keys>>
                   \/ ~(\E which \in WhichResults : StartConversion(which, MaxRuns))
       /\ \A t \in DOMAIN workers' :
             t \notin DOMAIN workers =>
                /\ workers'[t].converter_cmd # NoCommand
                /\ workers'[t].output_dir # None => isdir(workers'[t].output_dir)
      ]_vars

\* Requests are queued, no run was ever started, and the output folder that
\* is set does not exist.
C14_Witness ==
    /\ files_to_convert # <<>>
    /\ ~is_converting
    /\ workers = <<>>
    /\ settings.output_dir_var # None
    /\ ~isdir(settings.output_dir_var)

\* The n-th name for the converted file of mobi_file: <stem>.epub (n = 0) or
\* <stem> (n).epub, in output_dir or, when none is set, beside the source.
OutputName(mobi_file, output_dir, n) ==
    (IF output_dir # None THEN output_dir ELSE dirname(mobi_file))
        \o <<[stem |-> basename(mobi_file).stem, ext |-> "epub", n |-> n]>>

\* The step is thread t resolving the output path of the request in hand.
Resolves(t) ==
    /\ t \in Threads
    /\ workers[t].pc = "convert_file"
    /\ workers'[t] # workers[t]

\* C15: when the policy of the run is Skip and the target <stem>.epub exists,
\* resolve_output_path returns the target with the skip signal, the request
\* is recorded as Skipped and the loop moves on; no converter subprocess is
\* spawned for the request.
C15_SkipExistingTarget ==
    [][\A t \in DOMAIN workers :
          LET w == workers[t]
              mobi_file == w.files[w.index]
              target == OutputName(mobi_file, w.output_dir, 0)
          IN (Resolves(t) /\ w.policy = POLICY_SKIP /\ exists(target)) =>
                /\ \A listdir_ok \in BOOLEAN :
                      resolve_output_path(mobi_file, w.policy, w.output_dir, listdir_ok)
                         = <<target, TRUE>>
                /\ workers'[t].skipped = Append(w.skipped, mobi_file)
                /\ workers'[t].successes = w.successes
                /\ workers'[t].failures = w.failures
                /\ workers'[t].pc = "for"
                /\ workers'[t].index = w.index + 1
                /\ procs' = procs
                /\ \A p \in procs : ~(p.pid[1] = t /\ p.pid[2] = w.index)
                /\ disk' = disk
      ]_vars

\* The first request of a run under the Skip policy was skipped and the
\* worker is at the head of the loop for the second.
C15_Witness ==
    \E t \in Threads :
        /\ workers[t].pc = "for"
        /\ workers[t].policy = POLICY_SKIP
        /\ workers[t].index = 2
        /\ Len(workers[t].skipped) = 1
        /\ exists(OutputName(workers[t].skipped[1], workers[t].output_dir, 0))

\* The numbers N for which a name <stem> (N).epub of mobi_file's output,
\* letter case aside, lies in the destination folder.
NumbersInUse(mobi_file, output_dir) ==
    LET folder == dirname(OutputName(mobi_file, output_dir, 0))
    IN {basename(f).n : f \in
           {g \in disk : /\ FsKey(dirname(g)) = FsKey(folder)
                         /\ LowerStr(basename(g).stem) = LowerStr(basename(mobi_file).stem)
                         /\ LowerStr(basename(g).ext) = "epub"
                         /\ basename(g).n >= 1}}

\* The largest of a finite set of natural numbers, 0 for the empty set.
Largest(S) == IF S = {} THEN 0 ELSE CHOOSE m \in S : \A x \in S : x <= m

\* The first number from 1 on whose name <stem> (N).epub is free.
FirstFree(mobi_file, output_dir) ==
    CHOOSE n \in 1..(Cardinality(disk) + 1) :
        /\ ~exists(OutputName(mobi_file, output_dir, n))
        /\ \A k \in 1..(n - 1) : exists(OutputName(mobi_file, output_dir, k))

\* Thread t's step resolves the output path to `path` without the skip
\* signal: the converter is about to be spawned for it.
ResolvesTo(t, path) ==
    /\ workers'[t].output_path = path
    /\ workers'[t].pc = "popen"
    /\ workers'[t].index = workers[t].index
    /\ workers'[t].skipped = workers[t].skipped
    /\ ~exists(path)

\* C16 as stated: under the Rename policy with the target <stem>.epub on
\* disk the resolver returns <stem> (M+1).epub, M the largest number in use
\* in the destination folder, without the skip signal, and that path does not
\* exist.
C16_RenameToLargestPlusOne ==
    [][\A t \in DOMAIN workers :
          LET w == workers[t]
              mobi_file == w.files[w.index]
          IN (/\ Resolves(t)
              /\ w.policy = POLICY_RENAME
              /\ exists(OutputName(mobi_file, w.output_dir, 0))) =>
                ResolvesTo(t, OutputName(mobi_file, w.output_dir,
                                         Largest(NumbersInUse(mobi_file, w.output_dir)) + 1))
      ]_vars

\* C16: under the Rename policy with the target <stem>.epub on disk the
\* resolver never signals skip and returns a path that does not exist:
\* <stem> (M+1).epub, M the largest number in use in the destination folder
\* (letter case aside, 0 when none is), when the folder can be listed, and the
\* first free <stem> (N).epub counting from 1 when listing the folder fails.
C16_RenameToFreeName ==
    [][\A t \in DOMAIN workers : \A listdir_ok \in BOOLEAN :
          LET w == workers[t]
              mobi_file == w.files[w.index]
          IN (/\ Resolves(t)
              /\ ConvertFile(t, listdir_ok)
              /\ w.policy = POLICY_RENAME
              /\ exists(OutputName(mobi_file, w.output_dir, 0))) =>
                ResolvesTo(t, OutputName(mobi_file, w.output_dir,
                     IF listdir_ok
                     THEN Largest(NumbersInUse(mobi_file, w.output_dir)) + 1
                     ELSE FirstFree(mobi_file, w.output_dir)))
      ]_vars

\* With a.epub and a (1).epub beside the source and no higher number in use,
\* a run under the Rename policy has resolved the output of a.mobi to
\* a (2).epub.
C16_Witness ==
    \E t \in Threads :
        LET w == workers[t]
        IN /\ w.pc = "popen"
           /\ w.policy = POLICY_RENAME
           /\ w.output_dir = None
           /\ exists(OutputName(w.files[w.index], None, 0))
           /\ NumbersInUse(w.files[w.index], None) = {1}
           /\ w.output_path = OutputName(w.files[w.index], None, 2)

\* Thread t's step gives the request in hand the outcome Success, with the
\* output path the converter wrote.
BecomesSuccess(t) ==
    LET w == workers[t]
    IN /\ workers'[t].pc = "for"
       /\ workers'[t].successes = Append(w.successes, <<w.files[w.index], w.output_path>>)
       /\ workers'[t].failures = w.failures
       /\ workers'[t].skipped = w.skipped

\* The step is thread t classifying a converter run, first or retry, that
\* exited with code 0.
ClassifiesExitZero(t) ==
    /\ Classifies(t)
    /\ workers[t].attempt \in {1, 2}
    /\ workers[t].fatal_error = NoError
    /\ workers[t].return_code = 0

\* Path p names a file once the step is taken.
IsFileAfter(p) == \E f \in disk' : FsKey(f) = FsKey(p)

\* C17 as stated: a converter run that exits with code 0 makes its request a
\* Success, and with delete-on-success enabled the source no longer exists
\* afterwards.
C17_ExitZeroIsSuccess ==
    [][\A t \in DOMAIN workers :
          ClassifiesExitZero(t) =>
             /\ BecomesSuccess(t)
             /\ settings.delete_source_var = "1" =>
                   ~IsFileAfter(workers[t].files[workers[t].index])
      ]_vars

\* C17: a converter run, first or retry, that exits with code 0 makes its
\* request a Success unless delete-on-success is enabled and the source
\* cannot be deleted; on that Success the source no longer exists when
\* delete-on-success is enabled, and the disk is left as it is when it is
\* not.
C17_ExitZeroIsSuccessUnlessDeleteFails ==
    [][\A t \in DOMAIN workers : \A remove_ok \in BOOLEAN :
          LET mobi_file == workers[t].files[workers[t].index]
          IN (ClassifiesExitZero(t) /\ Classify(t, remove_ok)) =>
                IF settings.delete_source_var # "1"
                THEN BecomesSuccess(t) /\ disk' = disk
                ELSE IF remove_ok /\ isfile(mobi_file)
                     THEN /\ BecomesSuccess(t)
                          /\ ~IsFileAfter(mobi_file)
                          /\ IsFileAfter(workers[t].output_path)
                     ELSE ~BecomesSuccess(t)
      ]_vars

\* A run with delete-on-success enabled has converted a request: its output
\* is on disk and its source is gone.
C17_Witness ==
    /\ settings.delete_source_var = "1"
    /\ \E t \in Threads :
          /\ Alive(t)
          /\ \E i \in DOMAIN workers[t].successes :
                /\ ~isfile(workers[t].successes[i][1])
                /\ isfile(workers[t].successes[i][2])

\* C18: when a converter run exits with code 0, delete-on-success is enabled
\* and the source cannot be deleted, the request is recorded among the
\* failures, not the successes, with the detail that it was converted but
\* the source could not be deleted; the output and the source stay on disk,
\* and the converter is not run again for the request.
C18_DeleteFailureIsFailed ==
    [][\A t \in DOMAIN workers :
          LET w == workers[t]
              mobi_file == w.files[w.index]
          IN (/\ ClassifiesExitZero(t)
              /\ settings.delete_source_var = "1"
              /\ Classify(t, FALSE)) =>
                /\ BecomesFailed(t)
                /\ workers'[t].failures[Len(w.failures) + 1][2]
                      = [kind |-> "Converted but could not delete source file"]
                /\ workers'[t].index = w.index + 1
                /\ ~Retries(t)
                /\ disk' = disk
                /\ isfile(w.output_path)
                /\ isfile(mobi_file)
      ]_vars

\* A request was converted, its source could not be deleted, and it stands
\* among the failures while source and output are on disk.
C18_Witness ==
    \E t \in Threads :
        /\ Alive(t)
        /\ workers[t].successes = <<>>
        /\ \E i \in DOMAIN workers[t].failures :
              /\ workers[t].failures[i][2]
                    = [kind |-> "Converted but could not delete source file"]
              /\ isfile(workers[t].failures[i][1])
              /\ isfile(OutputName(workers[t].failures[i][1], workers[t].output_dir, 0))

\* The summary `ev` of a run gives every one of its `total` requests exactly
\* one outcome, none of them Cancelled, and reports the run as complete.
EveryRequestHasOneOutcome(ev) ==
    LET outcomes == [i \in DOMAIN ev.successes |-> ev.successes[i][1]] \o ev.skipped
                       \o [i \in DOMAIN ev.failures |-> ev.failures[i][1]]
    IN /\ Len(outcomes) = ev.total
       /\ \A i, j \in DOMAIN outcomes : i # j => outcomes[i] # outcomes[j]
       /\ \A i \in DOMAIN ev.failures : ev.failures[i][2] # [kind |-> "Cancelled by user."]
       /\ ev.processed_count = ev.total
       /\ ~ev.cancelled

\* C19: while no cancellation has been requested in a run, a worker that
\* leaves its loop, and the summary it emits, have given every request of the
\* snapshot exactly one outcome (Success, Skipped or Failed), whatever
\* non-zero exits, spawn failures, timeouts and deletion failures occurred:
\* the processed count is the total and the run is not reported cancelled.
C19_ErrorsDoNotEndTheRun ==
    ~cancel_requested =>
       /\ \A ev \in FinishedEvents : EveryRequestHasOneOutcome(ev)
       /\ \A t \in Threads :
             workers[t].pc = "finish" =>
                /\ EveryRequestHasOneOutcome(Finished(workers[t]))
                /\ Range(workers[t].files) =
                      Inputs(workers[t].successes) \cup Range(workers[t].skipped)
                         \cup Inputs(workers[t].failures)

\* The summary of a run of two requests that was never cancelled: the first
\* request ran into the timeout, the converter of the second could not be
\* spawned.
C19_Witness ==
    /\ ~cancel_requested
    /\ \E ev \in FinishedEvents :
          /\ ev.total = 2
          /\ Len(ev.failures) = 2
          /\ ev.failures[1][2].kind = "Timed out after"
          /\ ev.failures[2][2].kind = "ebook-convert was not found"

\* The number of finished events in a sequence of events.
FinishedCount(events) ==
    Cardinality({i \in DOMAIN events : events[i].type = "finished"})

\* C20: a worker thread ends only by emitting its terminal summary, from the
\* one place all ways out of the loop lead to, and emits nothing after it: a
\* thread that has ended takes no step, events are emitted only by steps of
\* live threads, a finished event is the last event of the queue and waits
\* there while no thread is alive; and every run that has started comes to
\* its end, so every run emits exactly one finished event.
C20_OneFinishedEventLast ==
    /\ [][/\ \A t \in DOMAIN workers :
                /\ workers[t].pc = "done" => workers'[t] = workers[t]
                /\ (workers[t].pc # "done" /\ workers'[t].pc = "done") =>
                      /\ workers[t].pc = "finish"
                      /\ event_queue' = Append(event_queue, Finished(workers[t]))
          /\ (event_queue' # event_queue /\ event_queue' # <<>>) =>
                \E t \in AliveThreads :
                   /\ workers'[t] # workers[t]
                   /\ Len(event_queue') > Len(event_queue)
                   /\ SubSeq(event_queue', 1, Len(event_queue)) = event_queue
          /\ FinishedCount(event_queue') > FinishedCount(event_queue) =>
                /\ FinishedCount(event_queue') = FinishedCount(event_queue) + 1
                /\ \E t \in AliveThreads : workers'[t].pc = "done"
          /\ PendingFinished' # {} =>
                (PendingFinished' = {Len(event_queue')} /\ AliveThreads' = {})
         ]_vars
    /\ (AliveThreads # {}) ~> (AliveThreads = {} /\ PendingFinished # {})

\* The summary of a run that saw the cancellation at the head of its loop,
\* after one request of two: it is the last event in the queue.
C20_Witness ==
    /\ event_queue # <<>>
    /\ event_queue[Len(event_queue)].type = "finished"
    /\ event_queue[Len(event_queue)].cancelled
    /\ event_queue[Len(event_queue)].failures = <<>>
    /\ event_queue[Len(event_queue)].processed_count = 1
    /\ event_queue[Len(event_queue)].total = 2
    /\ AliveThreads = {}

\* The directories among the paths enqueued.
DirSpellings == {p \in PathInputs : ~isfile(abspath(p)) /\ isdir(abspath(p))}

\* The files beneath directory `top`, at any depth, whose extension is mobi in
\* any letter case and whose canonical path is not queued, under the names
\* the walk of `top` gives them.
NewSourcesBeneath(top) ==
    {top \o SubSeq(f, Len(top) + 1, Len(f)) : f \in
        {g \in disk : /\ Len(g) > Len(top)
                      /\ FsKey(SubSeq(g, 1, Len(top))) = FsKey(top)
                      /\ LowerStr(g[Len(g)].ext) = "mobi"
                      /\ canonical_path(top \o SubSeq(g, Len(top) + 1, Len(g)))
                            \notin Keys(files_to_convert)}}

\* C21: an enqueue of a directory appends to the queue, each once, exactly the
\* files beneath it (at any depth) that end in .mobi in any letter case and
\* are not queued yet; what was queued keeps its place, no file with another
\* extension is added, and the count returned is the number of files added,
\* in whatever order the walk yields the files.
C21_DirectoryEnqueueAddsMobiFiles ==
    [][\A p \in DirSpellings :
          (UNCHANGED <<settings, is_converting, cancel_requested, event_queue, workers>>
              /\ QueuePath(p)) =>
             LET top == abspath(p)
                 old == Len(files_to_convert)
                 added == {files_to_convert'[i] : i \in (old + 1)..Len(files_to_convert')}
             IN /\ Len(files_to_convert') >= old
                /\ SubSeq(files_to_convert', 1, old) = files_to_convert
                /\ added = NewSourcesBeneath(top)
                /\ Len(files_to_convert') = old + Cardinality(added)
                /\ \A f \in added : LowerStr(f[Len(f)].ext) = "mobi"
                /\ \A found \in WalkOrders(top) :
                      QueueWalk(top, found, 1,
                                [q |-> files_to_convert, keys |-> file_keys, added |-> 0]).added
                         = Cardinality(NewSourcesBeneath(top))
      ]_vars

\* On Windows a.mobi was queued as A.Mobi, and the walk of the working
\* directory then added d/b.MOBI from its subdirectory and nothing else.
C21_Witness ==
    /\ platform = "nt"
    /\ workers = <<>>
    /\ files_to_convert = <<cwd \o <<Nm("A", "Mobi")>>, cwd \o <<Nm("d", ""), Nm("b", "MOBI")>> >>

\* C22 as stated: every converter subprocess that was running when the
\* controller accepted a cancellation request has been sent the termination
\* signal, wherever the worker stood between spawning it and publishing its
\* handle.
C22_CancelSignalsRunningSubprocess ==
    \A p \in procs : p.cancel_during => p.signalled

\* C23 as stated: the finished event the controller handles carries
\* cancelled = TRUE if and only if a cancellation request was accepted between
\* the start of its run and this step; the cancellation flag, cleared by the
\* start and set by an accepted request, records that.
C23_CancelledIffCancelAccepted ==
    [][\A ev \in FinishedEvents :
          Handles(ev) => (ev.cancelled <=> cancel_requested)
      ]_vars

\* The number of progress events in a sequence of events.
ProgressCount(events) ==
    Cardinality({i \in DOMAIN events : events[i].type = "progress"})

\* C24: the step that ends a worker's k-th attempt, whatever the outcome,
\* appends to the event queue, after the log events of the attempt, exactly
\* one progress event (k, total), and no other step emits a progress event;
\* as k is the loop index, which starts at 1 and goes up by one per attempt,
\* the progress values of a run are 1, 2, ..., and the processed count of
\* the finished event is the value of the last one (0 when nothing was
\* attempted).
C24_ProgressAfterEveryAttempt ==
    [][/\ \A t \in DOMAIN workers :
             LET w == workers[t]
                 n == Len(event_queue')
             IN IF w.pc = "done" THEN workers'[t] = w
                ELSE IF workers'[t].pc = "done"
                THEN /\ w.pc = "finish"
                     /\ event_queue'[n].type = "finished"
                     /\ event_queue'[n].processed_count = w.index - 1
                     /\ event_queue'[n].total = Len(w.files)
                     /\ ProgressCount(event_queue') = ProgressCount(event_queue)
                ELSE IF workers'[t].index # w.index
                THEN /\ workers'[t].index = w.index + 1
                     /\ w.pc \in {"convert_file", "classify"}
                     /\ n > Len(event_queue)
                     /\ SubSeq(event_queue', 1, Len(event_queue)) = event_queue
                     /\ event_queue'[n] = Progress(w.index, Len(w.files))
                     /\ ProgressCount(event_queue') = ProgressCount(event_queue) + 1
                     /\ workers'[t].processed_count = w.index
                ELSE /\ workers'[t].processed_count = w.processed_count
                     /\ ~(w.pc \in {"convert_file", "classify"}
                            /\ workers'[t].pc \in {"for", "finish"})
                     /\ w.processed_count = w.index - 1
       /\ ProgressCount(event_queue') > ProgressCount(event_queue) =>
             \E t \in AliveThreads : workers'[t].pc # "done" /\ workers'[t].index # workers[t].index
       /\ \A t \in DOMAIN workers' :
             t \notin DOMAIN workers =>
                workers'[t].index = 1 /\ workers'[t].processed_count = 0
      ]_vars

\* The events of a run of two requests wait in the event queue: the progress
\* events (1, 2) and (2, 2), the second after a failure, and then the
\* finished event with the processed count 2.
C24_Witness ==
    \E i, j, k \in DOMAIN event_queue :
        /\ i < j /\ j < k
        /\ event_queue[i] = Progress(1, 2)
        /\ event_queue[j] = Progress(2, 2)
        /\ event_queue[k].type = "finished"
        /\ event_queue[k].processed_count = 2
        /\ Len(event_queue[k].failures) >= 1
        /\ ProgressCount(event_queue) = 2

\* The failure message of the timeout, naming the limit the run was started
\* with.
TimeoutMessage(w) == [kind |-> "Timed out after", seconds |-> w.timeout_seconds]

\* C25: when communicate() runs into the timeout, the same step of the worker
\* kills the subprocess and waits for its end, so that it is gone when the
\* timeout is logged; the handle is cleared before the result is classified;
\* the classification gives the request the outcome Failed with the message
\* naming the configured limit, sets up no retry whatever the output collected
\* from the killed converter holds, leaves the disk as it is, and the loop
\* goes on with the next request.
C25_TimeoutIsFailedWithoutRetry ==
    [][\A t \in AliveThreads :
          LET w == workers[t]
          IN /\ (w.pc = "communicate" /\ workers'[t].pc = "finally"
                    /\ workers'[t].fatal_error # NoError) =>
                   /\ workers'[t].fatal_error = TimeoutMessage(w)
                   /\ procs' = {p \in procs : p.pid # w.process}
                   /\ \A p \in procs' : p.pid[1] # t
                   /\ event_queue' = Append(event_queue, Log("Timeout converting"))
             /\ (w.pc = "finally" /\ workers'[t] # w) => current_process' = None
             /\ (Classifies(t) /\ w.fatal_error.kind = "Timed out after") =>
                   /\ w.fatal_error.seconds
                         = get_timeout_seconds(settings.timeout_seconds_var).value
                   /\ BecomesFailed(t)
                   /\ workers'[t].failures[Len(w.failures) + 1][2] = TimeoutMessage(w)
                   /\ workers'[t].index = w.index + 1
                   /\ ~Retries(t)
                   /\ current_process = None
                   /\ \A p \in procs \cup procs' : p.pid[1] # t
                   /\ disk' = disk
      ]_vars

\* The first invocation for a request ran into the timeout and the killed
\* converter had written the split error to standard error; the result is
\* about to be classified.
C25_Witness ==
    \E t \in Threads :
        /\ workers[t].pc = "classify"
        /\ workers[t].attempt = 1
        /\ workers[t].fatal_error.kind = "Timed out after"
        /\ is_split_error(raw_tool_output(workers[t].stdout, workers[t].stderr))
        /\ workers[t].index < Len(workers[t].files)

Selected(ev) ==
    {canonical_path(p) : p \in Inputs(ev.successes) \cup Range(ev.skipped)}
       \cup (IF settings.failure_policy = FAIL_POLICY_REMOVE
             THEN {canonical_path(p) : p \in Inputs(ev.failures)}
             ELSE {})

\* The requests summary `ev` reports an outcome for.
Attempted(ev) == Inputs(ev.successes) \cup Range(ev.skipped) \cup Inputs(ev.failures)

C28_WorkerIndependentOfSettings ==
    [][\A t \in DOMAIN workers : \A remove_ok \in BOOLEAN :
          (Classifies(t) /\ Classify(t, remove_ok)) =>
             \A s \in UserSettings :
                convert_file_result(workers[t], cancel_requested, s.delete_source_var,
                                    DeleteSucceeds(workers[t].files[workers[t].index], remove_ok))
                   = convert_file_result(workers[t], cancel_requested,
                                         settings.delete_source_var,
                                         DeleteSucceeds(workers[t].files[workers[t].index], remove_ok))
      ]_vars

\* C29: every run that has started ends. While its worker is alive the
\* worker comes to emit the finished event, and the application, converting
\* from the start of the run on, returns to the idle state, whether or not a
\* cancellation was requested on the way and whether or not the subprocess
\* got the signal. No operation of the controller waits for the worker:
\* whatever the worker is doing, a cancel request and a request to clear the
\* list can be taken at once.
C29_EveryRunEnds ==
    /\ (is_converting /\ AliveThreads # {}) ~> (AliveThreads = {} /\ PendingFinished # {})
    /\ is_converting ~> ~is_converting
    /\ [](is_converting =>
            /\ ENABLED CancelConversion
            /\ ENABLED ClearList(TRUE))

\* A cancellation was accepted between the spawn of a converter and the
\* publication of its handle: the subprocess runs on without the signal
\* while the run is marked cancelled.
C29_Witness ==
    /\ is_converting
    /\ cancel_requested
    /\ \E p \in procs : p.cancel_during /\ ~p.signalled

\* The source paths of a list of (source, detail) pairs, in the list's order.
Sources(pairs) == [i \in DOMAIN pairs |-> pairs[i][1]]

\* C30: the finished event a worker emits partitions what the worker
\* attempted. The attempted requests are the first processed_count requests
\* of the snapshot the thread was started with; each of them is in exactly
\* one of successes, skipped and failures, and in it once; each list stands
\* in the order of the snapshot; and processed_count is the sum of the three
\* lengths, at most total, which is the length of the snapshot.
C30_OutcomeListsPartitionAttempts ==
    [][\A t \in Threads :
          (workers[t].pc = "finish" /\ workers'[t].pc = "done") =>
             LET files == workers[t].files
                 ev == event_queue'[Len(event_queue')]
                 prefix == {files[k] : k \in 1..ev.processed_count}
             IN /\ ev.type = "finished"
                /\ ev.total = Len(files)
                /\ ev.processed_count =
                      Len(ev.successes) + Len(ev.skipped) + Len(ev.failures)
                /\ ev.processed_count <= ev.total
                /\ Inputs(ev.successes) \cup Range(ev.skipped) \cup Inputs(ev.failures)
                      = prefix
                /\ Inputs(ev.successes) \cap Range(ev.skipped) = {}
                /\ Inputs(ev.successes) \cap Inputs(ev.failures) = {}
                /\ Range(ev.skipped) \cap Inputs(ev.failures) = {}
                /\ Cardinality(prefix) = ev.processed_count
                /\ InOrderOf(files, Sources(ev.successes))
                /\ InOrderOf(files, ev.skipped)
                /\ InOrderOf(files, Sources(ev.failures))
      ]_vars

\* The summary of a run of two requests that both failed.
C30_Witness ==
    \E ev \in FinishedEvents :
        /\ ev.total = 2
        /\ ev.processed_count = 2
        /\ Len(ev.failures) = 2
        /\ ev.failures[1][1] # ev.failures[2][1]

\* The requests summary `ev` reports as cancelled by the user.
CancelledInputs(ev) ==
    {ev.failures[i][1] :
        i \in {j \in DOMAIN ev.failures : ev.failures[j][2] = [kind |-> "Cancelled by user."]}}

\* C31: the step in which a worker classifies the request in hand as
\* Cancelled appends the request to the failures list with the detail
\* "Cancelled by user." and to no other list; and when the controller
\* handles the summary, a request with that detail is treated as the failure
\* policy treats failures: under Keep-failed it is still queued with its
\* key, under Remove-failed it and its key have left the queue.
C31_CancelledIsRecordedAsFailure ==
    [][/\ \A t \in Threads :
             (workers[t].pc = "classify" /\ ~workers[t].cancelled /\ workers'[t].cancelled)
                => BecomesCancelled(t)
       /\ \A ev \in FinishedEvents :
             Handles(ev) =>
                \A f \in CancelledInputs(ev) :
                   IF settings.failure_policy = FAIL_POLICY_REMOVE
                   THEN /\ f \notin Range(files_to_convert')
                        /\ canonical_path(f) \notin file_keys'
                   ELSE /\ f \in Range(files_to_convert')
                        /\ canonical_path(f) \in file_keys'
      ]_vars

\* The summary of a cancelled run waits to be handled under Keep-failed, the
\* cancelled request among its failures and still in the queue.
C31_Witness ==
    \E ev \in FinishedEvents :
        /\ ev.cancelled
        /\ CancelledInputs(ev) # {}
        /\ settings.failure_policy = FAIL_POLICY_KEEP
        /\ CancelledInputs(ev) \subseteq Range(files_to_convert)

\* C32: a cancellation is confined to the run it was requested in. The step
\* that starts a worker leaves the cancellation flag false, whatever the
\* flag was before; while no run is active the flag is raised by no step and
\* no subprocess is signalled, so a cancel request made then changes neither.
C32_CancelConfinedToItsRun ==
    [][/\ Len(workers') > Len(workers) => ~cancel_requested'
       /\ ~is_converting =>
             /\ cancel_requested' => cancel_requested
             /\ \A p \in procs' : p.signalled => p \in procs
             /\ CancelConversion => UNCHANGED <<cancel_requested, procs>>
      ]_vars

\* The worker of the first run has finished and its summary, which reports
\* no cancellation, waits to be handled; a cancel was accepted since, so the
\* flag is raised; the failed request stays queued, and a further run can be
\* started once the summary is handled.
C32_Witness ==
    /\ Len(workers) = 1
    /\ AliveThreads = {}
    /\ is_converting
    /\ cancel_requested
    /\ settings.failure_policy = FAIL_POLICY_KEEP
    /\ \E ev \in FinishedEvents : ~ev.cancelled /\ Len(ev.failures) > 0

\* C33: in every state the keys are the canonical paths of the queued
\* requests; and a request that a step takes out of the queue, the post-run
\* removal or a clear, is accepted when it is enqueued next and rejected as a
\* duplicate when it is enqueued once more.
C33_KeysAreCanonicalPathsOfQueue ==
    [][/\ file_keys = Keys(files_to_convert)
       /\ file_keys' = Keys(files_to_convert')
       /\ \A p \in Range(files_to_convert) \ Range(files_to_convert') :
             LET once == queue_file(files_to_convert', file_keys', p)
                 twice == queue_file(once.q, once.keys, p)
             IN /\ once.added
                /\ once.q = Append(files_to_convert', p)
                /\ once.keys = Keys(once.q)
                /\ ~twice.added
                /\ twice.q = once.q
      ]_vars

\* A second run starts on a request that an earlier run converted: its
\* output is on disk, so it left the queue when that run's summary was
\* handled, and it was enqueued again.
C33_Witness ==
    /\ Len(workers) = 2
    /\ workers[2].pc = "for"
    /\ workers[2].index = 1
    /\ \E f \in disk : basename(f).stem = "b" /\ basename(f).ext = "epub"
    /\ \E i \in DOMAIN workers[2].files : basename(workers[2].files[i]).stem = "b"

\* The threads that are inside run_conversion_command with a published
\* handle: between the publication and the finally clause.
Invoking == {t \in AliveThreads : workers[t].pc \in {"communicate", "finally"}}

\* C34: the shared handle is set only while a worker is inside one converter
\* invocation, between the publication and the finally clause, and it is the
\* handle of the subprocess that invocation spawned for the request in hand;
\* it is empty while no run is active and whenever no worker is inside an
\* invocation, however the last one ended. So a step that signals a
\* subprocess signals the one the handle names, which converts the request
\* the live worker has in hand.
C34_HandleOnlyInsideInvocation ==
    [][/\ current_process # None =>
             \E t \in Invoking :
                /\ workers[t].process = current_process
                /\ current_process = Pid(t)
       /\ current_process = None \/ (is_converting /\ Invoking # {})
       /\ current_process' = None \/ (is_converting' /\ Invoking' # {})
       /\ \A t \in Threads :
             (workers[t].pc = "finally" /\ workers'[t].pc # "finally")
                => current_process' = None
       /\ \A p \in procs' :
             (p.signalled /\ ~(\E q \in procs : q.pid = p.pid /\ q.signalled)) =>
                /\ p.pid = current_process
                /\ \E t \in Invoking :
                      /\ workers[t].process = p.pid
                      /\ p.command = Command(workers[t])
      ]_vars

\* The handle names the subprocess of the split-safe retry, which runs while
\* a cancellation is accepted and signals it.
C34_Witness ==
    /\ current_process # None
    /\ current_process[3] = 2
    /\ \E p \in procs : p.pid = current_process /\ p.signalled

====
